---------------------------- MODULE Spec2Model ----------------------------
(***************************************************************************)
(* A model of the decoder state of libipt (src/libipt/src/pt_state.c):     *)
(* the per-binding rings of pending events and the decoder position.       *)
(*                                                                         *)
(* One decoder is modelled; the `if (!decoder)' guards of the functions    *)
(* therefore never fire and are left out.  A pointer into the event rings  *)
(* is a pair (binding, slot index).  A pointer into the trace buffer is an *)
(* integer address, NULL being address 0; the buffers are far smaller than *)
(* the range of an int, so that pos + size neither wraps nor truncates.    *)
(*                                                                         *)
(* The module also models the mapping of a section on Windows              *)
(* (src/libipt/src/windows/pt_section_windows.c): pt_section_map by        *)
(* several threads under the lock of the section, the handles,             *)
(* descriptors and views it opens, pt_sec_windows_unmap and                *)
(* pt_sec_windows_read.  The widths of DWORD, uint64_t and of a pointer    *)
(* are scaled down to Bits32 and Bits64 bits; the map counter keeps its    *)
(* 16 bits.  The packet codec (pt_enc_next, pt_pkt_next) is modelled over  *)
(* the wire format of src/libipt/include/intel-pt.h.                       *)
(*                                                                         *)
(* The last IP, the queries of the query decoder (pt_qry_cond_branch,      *)
(* pt_qry_indirect_branch, pt_qry_event) and the traced image are modelled *)
(* as src/libipt/include/intel-pt.h and the design describe them; the      *)
(* queries use the rings, the position and pt_status_flags of pt_state.c.  *)
(***************************************************************************)
EXTENDS Integers, Sequences, FiniteSets, TLC

(***************************************************************************)
(* Sizes.                                                                  *)
(***************************************************************************)

\* enum pt_event_binding: the number of bindings (evb_psbend, evb_tip and
\* evb_fup).
evb_max == 3

\* The number of slots of one ring (pt_state.h).  pt_state.c uses it by name
\* only, and so do the properties below: they are stated for any ring size.
evb_max_pend == 5

\* enum pt_event_binding: the binding pt_status_flags asks about for
\* pdff_psbend, for pdff_tip and for pdff_fup.
evb_psbend == 0

evb_tip == 1

evb_fup == 2

\* enum pt_status_flag
pts_event_pending == 1

\* enum pt_event_type: the two event types the callers of this model store.
ptev_enabled == 0

ptev_disabled == 1

\* enum pt_error_code
pte_internal == 1

pte_invalid == 2

pte_nosync == 3

pte_bad_opc == 4

pte_bad_packet == 5

pte_eos == 7

pte_nomem == 9

pte_nomap == 13

pte_bad_image == 17

pte_bad_lock == 18

\* enum pt_opcode
pt_opc_pad == 0

pt_opc_ext == 2

pt_opc_tip == 13

pt_opc_tip_pge == 17

pt_opc_tip_pgd == 1

pt_opc_fup == 29

pt_opc_mode == 153

pt_opc_tsc == 25

\* enum pt_ext_code
pt_ext_psb == 130

pt_ext_tnt_64 == 163

pt_ext_pip == 67

pt_ext_ovf == 243

pt_ext_psbend == 35

pt_ext_cbr == 3

\* enum pt_opcode_mask
pt_opm_tip == 31

pt_opm_tnt_8_shr == 1

pt_opm_ipc_shr == 5

\* enum pt_psb_pattern
pt_psb_repeat_count == 7

\* enum pt_payload
pt_pl_pip_shr == 1

pt_pl_pip_shl == 5

pt_pl_pip_size == 6

pt_pl_tnt_64_size == 6

pt_pl_tnt_64_bits == 48

pt_pl_tsc_size == 7

pt_pl_cbr_size == 2

pt_pl_ip_upd16_size == 2

pt_pl_ip_upd32_size == 4

pt_pl_ip_sext48_size == 6

\* enum pt_mode_mask, enum pt_mode_leaf
pt_mom_leaf_shr == 5

pt_mol_exec == 0

pt_mol_tsx == 32

\* enum pt_mode_bit
pt_mob_exec_csl == 1

pt_mob_exec_csd == 2

pt_mob_tsx_intx == 1

pt_mob_tsx_abrt == 2

\* enum pt_ip_compression
pt_ipc_suppressed == 0

pt_ipc_update_16 == 1

pt_ipc_update_32 == 2

pt_ipc_sext_48 == 3

\* enum pt_packet_size: the size of a PSB packet in bytes.
ptps_psb == 16

\* SpecEvents: the number of pt_enqueue_event calls in one run.
MaxEvents == 2

\* SpecPos: the address of the trace buffer, and its largest size.
BufBase == 2

MaxBuf == 18

\* SpecPos: the sizes passed to pt_advance are -MaxStep .. MaxStep.
MaxStep == 3

\* The section: the bits that stand for 16, for 32 and for 64 bits.
Bits16 == 2

Bits32 == 4

Bits64 == 6

\* SpecSection, SpecView: the number of pt_section_map calls in one run.
MaxCalls == 3

\* SpecSection: the number of threads that use the section.
MaxThreads == 2

\* The longest section that is read, in bytes.
MaxRead == 2

\* SpecCodec: the number of pt_enc_next calls in one run.
MaxPackets == 1

\* SpecCodec: the size of the largest trace buffer, in bytes.
MaxTrace == 16

Threads == 1 .. MaxThreads

Bindings == 0 .. (evb_max - 1)

\* The bindings a caller passes: the valid ones and one that is out of range.
EvbArgs == 0 .. evb_max

Slots == 0 .. (evb_max_pend - 1)

EventTypes == {ptev_enabled, ptev_disabled}

\* The NULL pointer into the trace buffer.
NULL == 0

\* The NULL event pointer.
NullEv == [evb |-> -1, idx |-> -1]

\* &decoder->ev_pend[evb][idx]
EvPtr(evb, idx) == [evb |-> evb, idx |-> idx]

\* memset(ev, 0, sizeof(*ev)): the type of a zeroed event is ptev_enabled.
ZeroEvent == [type |-> ptev_enabled]

\* enum pt_decoder_function_flag: what the decode function of a packet says
\* about the packet.  pdff_event: the packet is an event packet; pdff_psbend,
\* pdff_tip, pdff_fup: the packet releases the events of that binding.
DfunFlags == {"pdff_event", "pdff_psbend", "pdff_tip", "pdff_fup"}

\* decoder->next = NULL: no packet has been fetched.
NoDfun == [null |-> TRUE, flags |-> {}]

\* A decode function with the given flags.
Dfun(flags) == [null |-> FALSE, flags |-> flags]

VARIABLES
    ev_begin,   \* decoder->ev_begin[evb]
    ev_end,     \* decoder->ev_end[evb]
    ev_pend,    \* decoder->ev_pend[evb][idx]
    pos,        \* decoder->pos
    sync,       \* decoder->sync
    config,     \* decoder->config: begin and end of the trace buffer
    psb_at,     \* the trace: the offsets at which a PSB packet starts
    next,       \* decoder->next: the decode function of the next packet
    ret,        \* the most recent call: its name, arguments and result
    queue,      \* per binding: the events enqueued and not yet dequeued
    last_deq,   \* per binding: the event the last successful dequeue gave
    discarded,  \* per binding: discarded since the last successful dequeue
    n_events,   \* SpecEvents: the pt_enqueue_event calls made so far
    section,    \* struct pt_section
    lock,       \* section->lock: the thread that holds it, 0 when free
    pc,         \* per thread: where it is in pt_section_map
    mc,         \* per thread: the local variable mcount of pt_section_map
    sret,       \* the most recent call on the section that returned
    file,       \* the file of the section: its size and modification time
    os,         \* the handles, descriptors, streams and views that are open
    ptr_bits,   \* the build: the width of a pointer
    n_calls,    \* the pt_section_map calls made so far
    n_maps,     \* the pt_section_map calls that returned success
    n_unmaps,   \* the pt_section_unmap calls that counted down
    all_ok,     \* no pt_section_map call has returned an error so far
    trace,      \* the trace buffer of the encoder and the packet decoder
    enc_pos,    \* the offset of the encoder in the trace buffer
    pkt_pos,    \* the offset of the packet decoder in the trace buffer
    cret,       \* the most recent pt_enc_next or pt_pkt_next call
    encoded,    \* the pt_enc_next calls so far: position, packet, result
    given,      \* the trace was recorded before: the caller decodes it
    last_ip,    \* decoder->ip: the last IP
    tnt_cache,  \* decoder->tnt: the conditional branches not yet asked for
    in_psb,     \* decoder->flags: the decoder is inside PSB+
    query,      \* the query in progress and the step it is at
    qret,       \* the most recent query, or last-IP call, that returned
    image,      \* the traced image: its sections
    src_image,  \* the image that pt_image_copy copies from
    iret,       \* the most recent call on the image
    dec_event,  \* decoder->event: the current event
    dec_tsc     \* decoder->tsc: the current TSC

vars == <<ev_begin, ev_end, ev_pend, pos, sync, config, psb_at, next, ret,
          queue, last_deq, discarded, n_events, section, lock, pc, mc, sret,
          file, os, ptr_bits, n_calls, n_maps, n_unmaps, all_ok, trace,
          enc_pos, pkt_pos, cret, encoded, given, last_ip, tnt_cache, in_psb,
          query, qret, image, src_image, iret, dec_event, dec_tsc>>

\* The rings.
ring == <<ev_begin, ev_end, ev_pend>>

\* The bookkeeping about the rings.
ghost == <<queue, last_deq, discarded>>

\* The decoder position and the trace.
position == <<pos, sync, config, psb_at>>

\* The decoder.
decoder == <<ring, ghost, position, next, ret, n_events>>

\* The section, its file and its threads.
sect == <<section, lock, pc, mc, sret, file, os, ptr_bits, n_calls, n_maps,
          n_unmaps, all_ok>>

\* The packet encoder, the packet decoder and their trace buffer.
codec == <<trace, enc_pos, pkt_pos, cret, encoded, given>>

\* The query decoder: what it keeps besides the rings and the position.
qry == <<last_ip, tnt_cache, in_psb, query, qret>>

\* The traced image.
img == <<image, src_image, iret>>

\* The current event and the current TSC of the decoder.
cur == <<dec_event, dec_tsc>>

\* The record of a call.
Ret(op, evb, arg, ev, val) ==
    [op |-> op, evb |-> evb, arg |-> arg, ev |-> ev, val |-> val]

(***************************************************************************)
(* pt_state.c: the event rings.                                            *)
(***************************************************************************)

\* A plausible bug: the index is not wrapped at the end of the ring.
queue_inc_no_wrap(idx) == (idx + 1) % 256

\* static inline uint8_t pt_queue_inc(uint8_t idx)
pt_queue_inc(idx) == ((idx + 1) % 256) % evb_max_pend

\* A plausible bug: the classic ring test, full when end + 1 meets begin.
enqueue_gap_one(end) == pt_queue_inc(end)

\* A plausible bug: the full test is missing.
enqueue_gap_none(end) == evb_max_pend

\* pt_enqueue_event: end = pt_queue_inc(end); gap = pt_queue_inc(end);
enqueue_gap(end) == pt_queue_inc(pt_queue_inc(end))

\* The pointer pt_enqueue_event returns.
enqueue_result(evb) ==
    IF evb_max <= evb THEN NullEv
    ELSE LET begin == ev_begin[evb]
             end == ev_end[evb]
         IN  IF evb_max_pend <= begin THEN NullEv
             ELSE IF evb_max_pend <= end THEN NullEv
             ELSE IF begin = enqueue_gap(end) THEN NullEv
             ELSE EvPtr(evb, end)

\* A plausible bug: the slot is zeroed before the ring is found to be full.
enqueue_pend_early(evb, type) ==
    IF evb_max <= evb THEN ev_pend
    ELSE IF enqueue_result(evb) = NullEv
         THEN [ev_pend EXCEPT ![evb][ev_end[evb]] = ZeroEvent]
         ELSE [ev_pend EXCEPT ![evb][ev_end[evb]] =
                  [ZeroEvent EXCEPT !.type = type]]

\* decoder->ev_pend after pt_enqueue_event and the caller's ev->type = type.
enqueue_pend(evb, type) ==
    LET ev == enqueue_result(evb)
    IN  IF ev = NullEv THEN ev_pend
        ELSE [ev_pend EXCEPT ![ev.evb][ev.idx] =
                 [ZeroEvent EXCEPT !.type = type]]

\* pt_enqueue_event followed by the caller's store ev->type = type.
pt_enqueue_event(evb, type) ==
    LET ev == enqueue_result(evb)
    IN  /\ ret' = Ret("enqueue", evb, type, ev, 0)
        /\ ev_pend' = enqueue_pend(evb, type)
        /\ IF ev = NullEv
           THEN UNCHANGED <<ev_end, queue>>
           ELSE /\ ev_end' = [ev_end EXCEPT ![evb] = pt_queue_inc(@)]
                /\ queue' = [queue EXCEPT ![evb] =
                                Append(@, [ev |-> ev, type |-> type])]
        /\ UNCHANGED <<ev_begin, last_deq, discarded, position>>

\* A plausible bug: the newest pending event is returned instead of the oldest.
dequeue_result_newest(evb) ==
    IF evb_max <= evb THEN NullEv
    ELSE LET begin == ev_begin[evb]
             end == ev_end[evb]
         IN  IF evb_max_pend <= begin THEN NullEv
             ELSE IF evb_max_pend <= end THEN NullEv
             ELSE IF begin = end THEN NullEv
             ELSE EvPtr(evb, (end + evb_max_pend - 1) % evb_max_pend)

\* The pointer pt_dequeue_event returns.
dequeue_result(evb) ==
    IF evb_max <= evb THEN NullEv
    ELSE LET begin == ev_begin[evb]
             end == ev_end[evb]
         IN  IF evb_max_pend <= begin THEN NullEv
             ELSE IF evb_max_pend <= end THEN NullEv
             ELSE IF begin = end THEN NullEv
             ELSE EvPtr(evb, begin)

\* pt_dequeue_event
pt_dequeue_event(evb) ==
    LET ev == dequeue_result(evb)
    IN  /\ ret' = Ret("dequeue", evb, 0, ev, 0)
        /\ IF ev = NullEv
           THEN UNCHANGED <<ev_begin, queue, last_deq, discarded>>
           ELSE /\ ev_begin' = [ev_begin EXCEPT ![evb] = pt_queue_inc(@)]
                /\ queue' = [queue EXCEPT ![evb] =
                                IF @ = <<>> THEN @ ELSE Tail(@)]
                /\ last_deq' = [last_deq EXCEPT ![evb] = ev]
                /\ discarded' = [discarded EXCEPT ![evb] = FALSE]
        /\ UNCHANGED <<ev_end, ev_pend, position>>

\* A plausible bug: only the begin index is reset.
discard_end_kept(evb) == ev_end

\* A plausible bug: the rings of all bindings are reset, as pt_reset does.
discard_end_all(evb) == [b \in Bindings |-> 0]

\* decoder->ev_end after pt_discard_events.
discard_end(evb) == [ev_end EXCEPT ![evb] = 0]

\* pt_discard_events
pt_discard_events(evb) ==
    /\ ret' = Ret("discard", evb, 0, NullEv, 0)
    /\ IF evb_max <= evb
       THEN UNCHANGED <<ev_begin, ev_end, queue, discarded>>
       ELSE /\ ev_begin' = [ev_begin EXCEPT ![evb] = 0]
            /\ ev_end' = discard_end(evb)
            /\ queue' = [queue EXCEPT ![evb] = <<>>]
            /\ discarded' = [discarded EXCEPT ![evb] = TRUE]
    /\ UNCHANGED <<ev_pend, last_deq, position>>

\* A plausible bug: the comparison of the two indices is inverted.
event_pending_inverted(evb) ==
    IF evb_max <= evb THEN -pte_internal
    ELSE IF ev_begin[evb] = ev_end[evb] THEN 1 ELSE 0

\* The value pt_event_pending returns.
event_pending(evb) ==
    IF evb_max <= evb THEN -pte_internal
    ELSE LET begin == ev_begin[evb]
             end == ev_end[evb]
         IN  IF evb_max_pend <= begin THEN -pte_internal
             ELSE IF evb_max_pend <= end THEN -pte_internal
             ELSE IF begin /= end THEN 1 ELSE 0

\* pt_event_pending
pt_event_pending(evb) ==
    /\ ret' = Ret("pending", evb, 0, NullEv, event_pending(evb))
    /\ UNCHANGED <<ring, ghost, position>>

\* A plausible bug: the search runs over every slot of the ring.
find_from_all(evb, type, begin, end) ==
    IF \E i \in Slots : ev_pend[evb][i].type = type
    THEN EvPtr(evb, CHOOSE i \in Slots :
                       /\ ev_pend[evb][i].type = type
                       /\ \A j \in Slots :
                             ev_pend[evb][j].type = type => i <= j)
    ELSE NullEv

\* The loop of pt_find_event: the first slot from begin on, before end, that
\* holds an event of the given type.
RECURSIVE find_from(_, _, _, _)
find_from(evb, type, begin, end) ==
    IF begin = end THEN NullEv
    ELSE IF ev_pend[evb][begin].type = type THEN EvPtr(evb, begin)
    ELSE find_from(evb, type, pt_queue_inc(begin), end)

\* The pointer pt_find_event returns.
find_event(type, evb) ==
    IF evb_max <= evb THEN NullEv
    ELSE LET begin == ev_begin[evb]
             end == ev_end[evb]
         IN  IF evb_max_pend <= begin THEN NullEv
             ELSE IF evb_max_pend <= end THEN NullEv
             ELSE find_from(evb, type, begin, end)

\* pt_find_event
pt_find_event(type, evb) ==
    /\ ret' = Ret("find", evb, type, find_event(type, evb), 0)
    /\ UNCHANGED <<ring, ghost, position>>

\* A plausible bug: the flag is added instead of or-ed in.
or_flag_added(flags, bit) == flags + bit

\* flags |= bit, for a flag of one bit.
or_flag(flags, bit) ==
    IF (flags \div bit) % 2 = 1 THEN flags ELSE flags + bit

\* A plausible bug: pdff_fup asks for the events bound to evb_tip.
status_flags_fup_as_tip ==
    IF next.null THEN 0
    ELSE LET f1 == IF "pdff_event" \in next.flags
                   THEN or_flag(0, pts_event_pending) ELSE 0
             f2 == IF /\ "pdff_psbend" \in next.flags
                      /\ event_pending(evb_psbend) /= 0
                   THEN or_flag(f1, pts_event_pending) ELSE f1
             f3 == IF /\ "pdff_tip" \in next.flags
                      /\ event_pending(evb_tip) /= 0
                   THEN or_flag(f2, pts_event_pending) ELSE f2
         IN  IF /\ "pdff_fup" \in next.flags
                /\ event_pending(evb_tip) /= 0
             THEN or_flag(f3, pts_event_pending) ELSE f3

\* A plausible bug: the events bound to evb_fup are not asked for.
status_flags_no_fup ==
    IF next.null THEN 0
    ELSE LET f1 == IF "pdff_event" \in next.flags
                   THEN or_flag(0, pts_event_pending) ELSE 0
             f2 == IF /\ "pdff_psbend" \in next.flags
                      /\ event_pending(evb_psbend) /= 0
                   THEN or_flag(f1, pts_event_pending) ELSE f1
         IN  IF /\ "pdff_tip" \in next.flags
                /\ event_pending(evb_tip) /= 0
             THEN or_flag(f2, pts_event_pending) ELSE f2

\* The value pt_status_flags returns.
status_flags ==
    IF next.null THEN 0
    ELSE LET f1 == IF "pdff_event" \in next.flags
                   THEN or_flag(0, pts_event_pending) ELSE 0
             f2 == IF /\ "pdff_psbend" \in next.flags
                      /\ event_pending(evb_psbend) /= 0
                   THEN or_flag(f1, pts_event_pending) ELSE f1
             f3 == IF /\ "pdff_tip" \in next.flags
                      /\ event_pending(evb_tip) /= 0
                   THEN or_flag(f2, pts_event_pending) ELSE f2
         IN  IF /\ "pdff_fup" \in next.flags
                /\ event_pending(evb_fup) /= 0
             THEN or_flag(f3, pts_event_pending) ELSE f3

\* pt_status_flags
pt_status_flags ==
    /\ ret' = Ret("status", 0, 0, NullEv, status_flags)
    /\ UNCHANGED <<ring, ghost, position, next>>

\* The decoder fetches the next packet: decoder->next becomes the decode
\* function of that packet, or NULL at the end of the trace.
pt_fetch_decoder(dfun) ==
    /\ next' = dfun
    /\ ret' = Ret("fetch", 0, 0, NullEv, 0)
    /\ UNCHANGED <<ring, ghost, position>>

(***************************************************************************)
(* pt_state.c: the decoder position.                                       *)
(***************************************************************************)

\* uint64_t pt_get_decoder_pos(struct pt_decoder *decoder)
pt_get_decoder_pos ==
    IF pos = NULL THEN 0
    ELSE IF config.begin = NULL THEN 0
    ELSE pos - config.begin

\* uint64_t pt_get_decoder_sync(struct pt_decoder *decoder)
pt_get_decoder_sync ==
    IF sync = NULL THEN 0
    ELSE IF config.begin = NULL THEN 0
    ELSE sync - config.begin

\* A plausible bug: the test against the end of the buffer is missing.
advance_result_no_end(size) ==
    IF pos + size < config.begin THEN -pte_eos ELSE 0

\* The value pt_advance returns.  Where pos is NULL or pos + size leaves the
\* buffer, the addition is undefined in C; a build computes the address
\* modulo the width of a pointer and compares it, unsigned, with begin and
\* end.  For buffers of these sizes that gives the result of the integer
\* arithmetic below: an address that wraps lies past end, not before begin,
\* and -pte_eos is returned in either case.
advance_result(size) ==
    IF pos + size < config.begin THEN -pte_eos
    ELSE IF config.end < pos + size THEN -pte_eos
    ELSE 0

\* pt_advance
pt_advance(size) ==
    LET errcode == advance_result(size)
    IN  /\ ret' = Ret("advance", 0, size, NullEv, errcode)
        /\ pos' = IF errcode = 0 THEN pos + size ELSE pos
        /\ UNCHANGED <<ring, ghost, sync, config, psb_at>>

(***************************************************************************)
(* Synchronization, as the interface describes it: the search starts at    *)
(* the current position, or at the begin of the buffer when the decoder    *)
(* has not been synchronized yet; the position and the synchronization     *)
(* point are set to the start of the PSB found.                            *)
(***************************************************************************)

\* Where the search for a PSB starts: at the current position, or at the
\* begin of the buffer when the decoder has not been synchronized yet.
sync_forward_start == IF pos = NULL THEN config.begin ELSE pos

\* A plausible bug: the search starts behind the current position, and
\* skips a PSB that starts there.
sync_forward_result_next ==
    LET start == IF pos = NULL THEN config.begin ELSE pos + 1
        found == {o \in psb_at : start <= config.begin + o}
    IN  IF found = {} THEN NULL
        ELSE config.begin + (CHOOSE o \in found : \A p \in found : o <= p)

\* The address of the first PSB at or after the start of the search, or NULL.
sync_forward_result ==
    LET start == sync_forward_start
        found == {o \in psb_at : start <= config.begin + o}
    IN  IF found = {} THEN NULL
        ELSE config.begin + (CHOOSE o \in found : \A p \in found : o <= p)

\* pt_sync_forward.  The record of the call says, as its argument, whether
\* the call directly follows a successful pt_sync_forward.
pt_sync_forward ==
    LET psb == sync_forward_result
        again == IF ret.op = "sync_forward" /\ ret.val = 0 THEN 1 ELSE 0
    IN  /\ ret' = Ret("sync_forward", 0, again, NullEv,
                      IF psb = NULL THEN -pte_eos ELSE 0)
        /\ pos' = IF psb = NULL THEN pos ELSE psb
        /\ sync' = IF psb = NULL THEN sync ELSE psb
        /\ UNCHANGED <<ring, ghost, config, psb_at>>

\* pt_sync_set
pt_sync_set(offset) ==
    /\ ret' = Ret("sync_set", 0, offset, NullEv,
                  IF offset \in psb_at THEN 0 ELSE -pte_nosync)
    /\ pos' = IF offset \in psb_at THEN config.begin + offset ELSE pos
    /\ sync' = IF offset \in psb_at THEN config.begin + offset ELSE sync
    /\ UNCHANGED <<ring, ghost, config, psb_at>>

(***************************************************************************)
(* windows/pt_section_windows.c: mapping a section of a file.              *)
(*                                                                         *)
(* One section is modelled.  It has a file name and a status, as every     *)
(* section that was created has, and a size of at least one byte.  The     *)
(* section is used by the threads of Threads.                              *)
(*                                                                         *)
(* The integers of TLC are 32 bits wide, so the 64-bit sizes and the       *)
(* addresses of the code are scaled: a type of 16, 32 or 64 bits has       *)
(* Bits16, Bits32 or Bits64 bits here.  The map counter keeps its 16 bits. *)
(***************************************************************************)

\* A plausible bug: the local mcount is wider than the counter.
uint16_wide(x) == x

\* uint16_t mcount
uint16(x) == x % (2 ^ 16)

\* uint16_t size (pt_sec_windows_read), scaled
size16(x) == x % (2 ^ Bits16)

\* DWORD, scaled
dword(x) == x % (2 ^ Bits32)

\* uint64_t, scaled
uint64(x) == x % (2 ^ Bits64)

\* A pointer of the build, bits wide.
ptr(bits, x) == x % (2 ^ bits)

\* granularity(): dwAllocationGranularity, which is 64 KiB.
granularity == 2 ^ Bits16

\* section->mapping == NULL
NoMapping ==
    [kind |-> "none", fd |-> 0, mh |-> 0, base |-> 0, begin |-> 0, end |-> 0]

\* The function pointers section->unmap and section->read.
NoFunction == "NULL"

\* The smallest descriptor or handle that is not in use.
NewId(used) == CHOOSE n \in 1 .. (Cardinality(used) + 1) :
                   /\ n \notin used
                   /\ \A m \in 1 .. (n - 1) : m \in used

\* The system has no file, mapping or view open.  bad_close: a handle,
\* descriptor or stream that was not open has been closed; n_views: the
\* number of views that the call in progress has created.
NoResources ==
    [fhs |-> {}, fds |-> {}, files |-> {}, mhs |-> {}, views |-> {},
     bad_close |-> FALSE, n_views |-> 0]

\* CreateFile: a new file handle.
CreateFile(o, fh) == [o EXCEPT !.fhs = @ \cup {fh}]

\* CloseHandle on a file handle.
CloseFileHandle(o, fh) ==
    [o EXCEPT !.fhs = @ \ {fh}, !.bad_close = @ \/ fh \notin o.fhs]

\* _open_osfhandle: the descriptor fd takes over the file handle fh.
open_osfhandle(o, fh, fd) == [o EXCEPT !.fds = @ \cup {fd}]

\* _close: closes the descriptor and the file handle it has taken over.
close(o, fd) ==
    [o EXCEPT !.fds = @ \ {fd}, !.fhs = @ \ {fd},
              !.bad_close = @ \/ fd \notin o.fds]

\* _fdopen: the stream takes over the descriptor fd.
fdopen(o, fd) == [o EXCEPT !.files = @ \cup {fd}]

\* fclose: closes the stream, its descriptor and its file handle.
fclose(o, stream) ==
    [o EXCEPT !.files = @ \ {stream}, !.fds = @ \ {stream},
              !.fhs = @ \ {stream},
              !.bad_close = @ \/ stream \notin o.files]

\* CreateFileMapping: a new file-mapping handle.
CreateFileMapping(o, mh) == [o EXCEPT !.mhs = @ \cup {mh}]

\* CloseHandle on a file-mapping handle.
CloseHandle(o, mh) ==
    [o EXCEPT !.mhs = @ \ {mh}, !.bad_close = @ \/ mh \notin o.mhs]

\* MapViewOfFile: a view of len bytes of the file from offset off, at base.
MapViewOfFile(o, base, off, len) ==
    [o EXCEPT !.views = @ \cup {[base |-> base, off |-> off, len |-> len]},
              !.n_views = @ + 1]

\* UnmapViewOfFile: unmaps the view whose base address is the address given;
\* the call fails and unmaps nothing when no view starts at that address.
UnmapViewOfFile(o, address) ==
    [o EXCEPT !.views = {v \in @ : v.base /= address}]

\* Where the system places a view of len bytes in an address space of
\* 2^bits bytes: at a multiple of the allocation granularity, above the
\* first and below the last 64 KiB of the address space.
ViewFits(bits, base, len) ==
    /\ base % granularity = 0
    /\ granularity <= base
    /\ base + len <= 2 ^ bits - granularity

\* The system places no view where another view is mapped.
ViewFree(o, base, len) ==
    \A v \in o.views : base + len <= v.base \/ v.base + v.len <= base

\* The result of a function that maps: its return value, the resources of
\* the system, and the mapping it installed.
Mapped(errcode, o, mapping, unmap, read) ==
    [errcode |-> errcode, os |-> o, mapping |-> mapping, unmap |-> unmap,
     read |-> read]

\* The function returns an error and installs nothing.
NotMapped(errcode, o) ==
    Mapped(errcode, o, NoMapping, NoFunction, NoFunction)

\* A plausible bug: only the size of the file is compared.
check_file_status_size(env) ==
    IF ~env.fstat THEN -pte_bad_image
    ELSE IF file.size /= section.status.size THEN -pte_bad_image
    ELSE 0

\* check_file_status: the size and the modification time of the open file
\* are those that pt_section_mk_status recorded.
check_file_status(env) ==
    IF ~env.fstat THEN -pte_bad_image
    ELSE IF file.size /= section.status.size THEN -pte_bad_image
    ELSE IF file.mtime /= section.status.mtime THEN -pte_bad_image
    ELSE 0

\* A plausible bug: the section is taken to begin where the view begins.
view_begin_unadjusted(base, adjustment) == base

\* mapping->begin = base + adjustment;
view_begin(base, adjustment) == base + adjustment

\* pt_sec_windows_map, from the resources o of the system
pt_sec_windows_map(o, fd, env) ==
    LET adjustment == section.offset % granularity
        offset == uint64(section.offset - adjustment)
        size == uint64(section.size + adjustment)
        dsize == dword(size)
        mh == NewId(o.mhs)
        o_mh == CreateFileMapping(o, mh)
        base == env.base
        o_map == MapViewOfFile(o_mh, base, offset, dsize)
        mapping == [kind |-> "windows", fd |-> fd, mh |-> mh, base |-> base,
                    begin |-> ptr(ptr_bits, view_begin(base, adjustment)),
                    end |-> ptr(ptr_bits, base + size)]
    IN  IF size < section.size THEN NotMapped(-pte_internal, o)
        ELSE IF dsize /= size THEN NotMapped(-pte_internal, o)
        ELSE IF ~env.cfm THEN NotMapped(-pte_bad_image, o)
        ELSE IF ~(/\ env.view
                  /\ ViewFits(ptr_bits, base, dsize)
                  /\ ViewFree(o, base, dsize))
             THEN NotMapped(-pte_bad_image, CloseHandle(o_mh, mh))
        ELSE IF ~env.malloc
             THEN NotMapped(-pte_bad_image,
                            CloseHandle(UnmapViewOfFile(o_map, base), mh))
        ELSE Mapped(0, o_map, mapping,
                    "pt_sec_windows_unmap", "pt_sec_windows_read")

\* pt_sec_file_map: the section is read through the stream; on an error
\* nothing is installed and the stream is left open.
pt_sec_file_map(o, stream, env) ==
    IF env.filemap /= 0 THEN NotMapped(env.filemap, o)
    ELSE Mapped(0, o, [NoMapping EXCEPT !.kind = "file", !.fd = stream],
                "pt_sec_file_unmap", "pt_sec_file_read")

\* How pt_section_map leaves: the value it returns, the resources of the
\* system, what it installed in the section, and whether it has called
\* pt_section_unlock.
Leave(m, mcount, unlock) ==
    [errcode |-> m.errcode, os |-> m.os, mapping |-> m.mapping,
     unmap |-> m.unmap, read |-> m.read, mcount |-> mcount,
     unlock |-> unlock]

\* A plausible bug: the descriptor is closed once the section is mapped.
map_success_closed(m) ==
    Leave([m EXCEPT !.os = close(m.os, m.mapping.fd)], 1, TRUE)

\* section->mcount = 1; return pt_section_unlock(section);
map_success(m) == Leave(m, 1, TRUE)

\* out_unlock: (void) pt_section_unlock(section); return errcode;
out_unlock(errcode, o) == Leave(NotMapped(errcode, o), 0, TRUE)

\* A plausible bug: the file handle is not closed.
out_fh_leak(errcode, o, fh) == out_unlock(errcode, o)

\* out_fh: CloseHandle(fh); then out_unlock
out_fh(errcode, o, fh) == out_unlock(errcode, CloseFileHandle(o, fh))

\* out_fd: _close(fd); return errcode;
out_fd(errcode, o, fd) == Leave(NotMapped(errcode, close(o, fd)), 0, FALSE)

\* pt_section_map, from CreateFile on: opens the file and maps the section.
\* The descriptor has the number of the file handle it takes over, and the
\* stream the number of its descriptor.
map_file(env) ==
    LET fh == NewId(os.fhs)
        o_fh == CreateFile(os, fh)
        fd == fh
        o_fd == open_osfhandle(o_fh, fh, fd)
        wmap == pt_sec_windows_map(o_fd, fd, env)
        stream == fd
        fmap == pt_sec_file_map(fdopen(wmap.os, fd), stream, env)
    IN  IF ~env.open1 /\ ~env.open2 THEN out_unlock(-pte_bad_image, os)
        ELSE IF ~env.osf THEN out_fh(-pte_bad_image, o_fh, fh)
        ELSE IF check_file_status(env) < 0
             THEN out_fd(-pte_bad_image, o_fd, fd)
        ELSE IF wmap.errcode = 0 THEN map_success(wmap)
        ELSE IF ~env.fdopen THEN out_fd(-pte_bad_image, wmap.os, fd)
        ELSE IF fmap.errcode = 0 THEN map_success(fmap)
        ELSE out_unlock(fmap.errcode, fclose(fmap.os, stream))

\* The address that pt_sec_windows_unmap passes to UnmapViewOfFile.
unmap_address(mapping) == mapping.begin

\* A plausible bug: the mapping is released, and section->mapping,
\* section->unmap and section->read are left as they are.
pt_sec_windows_unmap_kept ==
    LET mapping == section.mapping
    IN  IF \/ mapping = NoMapping
           \/ section.unmap = NoFunction
           \/ section.read = NoFunction
        THEN Mapped(-pte_internal, os, section.mapping, section.unmap,
                    section.read)
        ELSE Mapped(0, close(CloseHandle(
                           UnmapViewOfFile(os, unmap_address(mapping)),
                           mapping.mh), mapping.fd),
                    section.mapping, section.unmap, section.read)

\* pt_sec_windows_unmap
pt_sec_windows_unmap ==
    LET mapping == section.mapping
    IN  IF \/ mapping = NoMapping
           \/ section.unmap = NoFunction
           \/ section.read = NoFunction
        THEN Mapped(-pte_internal, os, section.mapping, section.unmap,
                    section.read)
        ELSE NotMapped(0, close(CloseHandle(
                              UnmapViewOfFile(os, unmap_address(mapping)),
                              mapping.mh), mapping.fd))

\* pt_sec_file_unmap: closes the stream and removes the mapping.
pt_sec_file_unmap ==
    IF section.mapping = NoMapping
    THEN Mapped(-pte_internal, os, section.mapping, section.unmap,
                section.read)
    ELSE NotMapped(0, fclose(os, section.mapping.fd))

\* section->unmap(section)
section_unmap ==
    IF section.unmap = "pt_sec_windows_unmap" THEN pt_sec_windows_unmap
    ELSE pt_sec_file_unmap

\* pt_section_lock: waits until no thread holds the lock of the section,
\* then thread t holds it.
pt_section_lock(t) == [free |-> lock = 0, owner |-> t]

\* pt_section_unlock: the lock is free again, unless unlocking fails.
pt_section_unlock(ok) == IF ok THEN 0 ELSE lock

\* The record of a call on the section.
SRet(t, op, val, size, offset, bytes) ==
    [thread |-> t, op |-> op, val |-> val, size |-> size,
     offset |-> offset, bytes |-> bytes, views |-> 0]

\* pt_section_map returns val to thread t.
MapReturn(t, val) ==
    /\ pc' = [pc EXCEPT ![t] = "idle"]
    /\ mc' = [mc EXCEPT ![t] = 0]
    /\ sret' = SRet(t, "map", val, 0, 0, <<>>)
    /\ all_ok' = (all_ok /\ val = 0)
    /\ n_maps' = IF val = 0 THEN n_maps + 1 ELSE n_maps

\* A plausible bug: pt_section_map does not take the lock.
map_lock_skipped(t) == [free |-> TRUE, owner |-> lock]

\* pt_section_map: errcode = pt_section_lock(section);
map_lock(t) == pt_section_lock(t)

\* Thread t calls pt_section_map.
pt_section_map_call(t) ==
    /\ pc[t] = "idle"
    /\ n_calls < MaxCalls
    /\ n_calls' = n_calls + 1
    /\ pc' = [pc EXCEPT ![t] = "lock"]
    /\ UNCHANGED <<section, lock, mc, sret, file, os, ptr_bits, n_maps,
                   n_unmaps, all_ok, decoder, codec, qry, img, cur>>

\* pt_section_map, up to the lock: the thread waits for the lock and takes
\* it, or returns the error of pt_section_lock.
pt_section_map_lock(t, ok) ==
    /\ pc[t] = "lock"
    /\ IF ok
       THEN /\ map_lock(t).free
            /\ lock' = map_lock(t).owner
            /\ pc' = [pc EXCEPT ![t] = "locked"]
            /\ UNCHANGED <<mc, sret, all_ok, n_maps>>
       ELSE /\ MapReturn(t, -pte_bad_lock)
            /\ UNCHANGED lock
    /\ UNCHANGED <<section, file, os, ptr_bits, n_calls, n_unmaps, decoder,
                   codec, qry, img, cur>>

\* pt_section_map: mcount = section->mcount + 1, and the tests that follow.
pt_section_map_count(t, unlock_ok) ==
    LET mcount == uint16(section.mcount + 1)
    IN  /\ pc[t] = "locked"
        /\ IF mcount > 1
           THEN /\ pc' = [pc EXCEPT ![t] = "mapped"]
                /\ mc' = [mc EXCEPT ![t] = mcount]
                /\ UNCHANGED <<lock, sret, all_ok, n_maps>>
           ELSE IF mcount = 0 \/ section.mapping /= NoMapping
           THEN /\ lock' = pt_section_unlock(unlock_ok)
                /\ MapReturn(t, -pte_internal)
           ELSE /\ pc' = [pc EXCEPT ![t] = "unmapped"]
                /\ mc' = [mc EXCEPT ![t] = mcount]
                /\ UNCHANGED <<lock, sret, all_ok, n_maps>>
        /\ UNCHANGED <<section, file, os, ptr_bits, n_calls, n_unmaps,
                       decoder, codec, qry, img, cur>>

\* A plausible bug: the counter is set as for the first mapping.
mapped_mcount_first(mcount) == 1

\* pt_section_map on a mapped section: section->mcount = mcount;
mapped_mcount(mcount) == mcount

\* pt_section_map on a mapped section: the counter is written and the lock
\* is released.
pt_section_map_mapped(t, unlock_ok) ==
    /\ pc[t] = "mapped"
    /\ section' = [section EXCEPT !.mcount = mapped_mcount(mc[t])]
    /\ lock' = pt_section_unlock(unlock_ok)
    /\ MapReturn(t, IF unlock_ok THEN 0 ELSE -pte_bad_lock)
    /\ UNCHANGED <<file, os, ptr_bits, n_calls, n_unmaps, decoder, codec, qry,
                   img, cur>>

\* pt_section_map on an unmapped section: the file is opened and mapped.
pt_section_map_unmapped(t, env) ==
    LET m == map_file(env)
        val == IF m.errcode = 0 /\ ~env.unlock THEN -pte_bad_lock
               ELSE m.errcode
    IN  /\ pc[t] = "unmapped"
        /\ os' = [m.os EXCEPT !.n_views = 0]
        /\ section' = IF m.errcode = 0
                      THEN [section EXCEPT !.mapping = m.mapping,
                                           !.unmap = m.unmap,
                                           !.read = m.read,
                                           !.mcount = m.mcount]
                      ELSE section
        /\ lock' = IF m.unlock THEN pt_section_unlock(env.unlock) ELSE lock
        /\ pc' = [pc EXCEPT ![t] = "idle"]
        /\ mc' = [mc EXCEPT ![t] = 0]
        /\ sret' = [SRet(t, "map", val, 0, 0, <<>>)
                       EXCEPT !.views = m.os.n_views]
        /\ all_ok' = (all_ok /\ val = 0)
        /\ n_maps' = IF val = 0 THEN n_maps + 1 ELSE n_maps
        /\ UNCHANGED <<file, ptr_bits, n_calls, n_unmaps, decoder, codec, qry,
                       img, cur>>

\* pt_section_unmap: under the lock, the counter is decremented, and the
\* mapping is removed when the counter drops to zero.
pt_section_unmap(t) ==
    LET m == section_unmap
        val == IF section.mcount = 0 THEN -pte_nomap
               ELSE IF section.mcount > 1 THEN 0
               ELSE IF section.unmap = NoFunction THEN -pte_internal
               ELSE m.errcode
    IN  /\ pc[t] = "idle"
        /\ pt_section_lock(t).free
        /\ section' = IF section.mcount = 0 THEN section
                      ELSE IF section.mcount > 1 \/ section.unmap = NoFunction
                      THEN [section EXCEPT !.mcount = @ - 1]
                      ELSE [section EXCEPT !.mcount = @ - 1,
                                           !.mapping = m.mapping,
                                           !.unmap = m.unmap,
                                           !.read = m.read]
        /\ os' = IF section.mcount = 1 /\ section.unmap /= NoFunction
                 THEN m.os ELSE os
        /\ sret' = SRet(t, "unmap", val, 0, 0, <<>>)
        /\ n_unmaps' = IF section.mcount = 0 THEN n_unmaps ELSE n_unmaps + 1
        /\ UNCHANGED <<lock, pc, mc, file, ptr_bits, n_calls, n_maps, all_ok,
                       decoder, codec, qry, img, cur>>

\* Thread t calls pt_sec_windows_unmap on the section, as section->unmap
\* does, without the lock and without counting.
pt_sec_windows_unmap_call(t) ==
    LET m == pt_sec_windows_unmap
    IN  /\ pc[t] = "idle"
        /\ section.mapping.kind /= "file"
        /\ section' = [section EXCEPT !.mapping = m.mapping,
                                      !.unmap = m.unmap,
                                      !.read = m.read]
        /\ os' = m.os
        /\ sret' = SRet(t, "windows_unmap", m.errcode, 0, 0, <<>>)
        /\ UNCHANGED <<lock, pc, mc, file, ptr_bits, n_calls, n_maps,
                       n_unmaps, all_ok, decoder, codec, qry, img, cur>>

\* Thread t calls pt_sec_windows_map on the section with the descriptor fd,
\* as pt_section_map does once it has found section->mapping NULL, without
\* the lock and without counting.
pt_sec_windows_map_call(t, fd, env) ==
    LET m == pt_sec_windows_map(os, fd, env)
    IN  /\ pc[t] = "idle"
        /\ section.mapping = NoMapping
        /\ fd \in os.fds
        /\ section' = IF m.errcode = 0
                      THEN [section EXCEPT !.mapping = m.mapping,
                                           !.unmap = m.unmap,
                                           !.read = m.read]
                      ELSE section
        /\ os' = m.os
        /\ sret' = SRet(t, "windows_map", m.errcode, 0, 0, <<>>)
        /\ UNCHANGED <<lock, pc, mc, file, ptr_bits, n_calls, n_maps,
                       n_unmaps, all_ok, decoder, codec, qry, img, cur>>

\* The file is written: its size or its modification time changes.
FileWrite(size, mtime) ==
    /\ file /= [size |-> size, mtime |-> mtime]
    /\ file' = [size |-> size, mtime |-> mtime]
    /\ UNCHANGED <<section, lock, pc, mc, sret, os, ptr_bits, n_calls,
                   n_maps, n_unmaps, all_ok, decoder, codec, qry, img, cur>>

\* The byte of the file at an offset.
FileByte(offset) == offset % 256

\* The byte at an address: the byte of the file that a view maps there, and
\* no byte ("fault") where no view is mapped.
Memory(address) ==
    LET at == {v \in os.views :
                  v.base <= address /\ address < v.base + v.len}
    IN  IF at = {} THEN "fault"
        ELSE LET v == CHOOSE v \in at : TRUE
             IN  FileByte(v.off + (address - v.base))

\* What pt_sec_windows_read returns, and the bytes it copies to the buffer.
\* begin and end are computed at the pointer width of the build.  A pointer
\* sum that passes the end of the address space is undefined: the build
\* either wraps it and compares (folded = FALSE), or has folded the two
\* comparisons that only an overflow makes true, end < begin and
\* begin < mapping->begin, to false (folded = TRUE).  A negative count
\* passed to memcpy is a fault.
windows_read(size, offset, folded) ==
    LET mapping == section.mapping
        begin == ptr(ptr_bits, mapping.begin + offset)
        end == ptr(ptr_bits, begin + size)
        last == IF mapping.end < end THEN mapping.end ELSE end
        bytes == last - begin
    IN  IF mapping = NoMapping THEN [val |-> -pte_internal, bytes |-> <<>>]
        ELSE IF ~folded /\ end < begin
             THEN [val |-> -pte_nomap, bytes |-> <<>>]
        ELSE IF mapping.end <= begin THEN [val |-> -pte_nomap, bytes |-> <<>>]
        ELSE IF ~folded /\ begin < mapping.begin
             THEN [val |-> -pte_nomap, bytes |-> <<>>]
        ELSE IF bytes < 0 THEN [val |-> bytes, bytes |-> <<"fault">>]
        ELSE [val |-> bytes,
              bytes |-> [i \in 1 .. bytes |-> Memory(begin + (i - 1))]]

\* pt_sec_windows_read
pt_sec_windows_read(t, size, offset, folded) ==
    LET r == windows_read(size, offset, folded)
    IN  /\ pc[t] = "idle"
        /\ section.mapping.kind /= "file"
        /\ sret' = SRet(t, "read", r.val, size, offset, r.bytes)
        /\ UNCHANGED <<section, lock, pc, mc, file, os, ptr_bits, n_calls,
                       n_maps, n_unmaps, all_ok, decoder, codec, qry, img, cur>>

(***************************************************************************)
(* The packet codec: pt_enc_next and pt_pkt_next.  The wire format is that *)
(* of intel-pt.h (opcodes, extension codes, payload sizes, masks and       *)
(* shifts).  A uint64_t field of a packet is kept as its eight bytes,      *)
(* least significant first.                                                *)
(***************************************************************************)

\* n zero bytes.
Zeros(n) == [i \in 1 .. n |-> 0]

\* A uint64_t from its low bytes.
UInt64(bytes) == bytes \o Zeros(8 - Len(bytes))

\* The most significant bit that is set in a byte that is not zero.
HighBit(b) == CHOOSE h \in 0 .. 7 : 2 ^ h <= b /\ b < 2 ^ (h + 1)

\* The most significant byte that is not zero.
HighByte(bytes) ==
    CHOOSE k \in 1 .. Len(bytes) :
        bytes[k] /= 0 /\ \A l \in (k + 1) .. Len(bytes) : bytes[l] = 0

\* val < 2^bits, for a uint64_t val.
BitsFit(val, bits) ==
    \A i \in 1 .. 8 :
        IF i > bits \div 8 + 1 THEN val[i] = 0
        ELSE IF i = bits \div 8 + 1 THEN val[i] < 2 ^ (bits % 8)
        ELSE TRUE

\* val | (1 << bit), where the bit is not set in val.
SetBit(val, bit) == [val EXCEPT ![bit \div 8 + 1] = @ + 2 ^ (bit % 8)]

\* val >> n, for n < 8.
ShiftRight(val, n) ==
    [i \in 1 .. 8 |->
        val[i] \div 2 ^ n
        + (IF i < 8 THEN val[i + 1] % 2 ^ n ELSE 0) * 2 ^ (8 - n)]

\* val << n, for n < 8.
ShiftLeft(val, n) ==
    [i \in 1 .. 8 |->
        (val[i] % 2 ^ (8 - n)) * 2 ^ n
        + (IF i > 1 THEN val[i - 1] \div 2 ^ (8 - n) ELSE 0)]

\* struct pt_packet
Packet(type, size, payload) ==
    [type |-> type, size |-> size, payload |-> payload]

\* Packets: pad, ovf, psb, psbend - no payload.
NoPayload == <<>>

\* No packet: what the decoder leaves when it fails.
NoPacket == Packet("ppt_invalid", 0, NoPayload)

\* The packets with an IP payload, and their opcodes.
IpOpcodes ==
    [ppt_tip |-> pt_opc_tip, ppt_tip_pge |-> pt_opc_tip_pge,
     ppt_tip_pgd |-> pt_opc_tip_pgd, ppt_fup |-> pt_opc_fup]

\* The size of an IP payload in bytes; no size for an unknown compression.
pt_ipc_size(ipc) ==
    IF ipc = pt_ipc_suppressed THEN 0
    ELSE IF ipc = pt_ipc_update_16 THEN pt_pl_ip_upd16_size
    ELSE IF ipc = pt_ipc_update_32 THEN pt_pl_ip_upd32_size
    ELSE IF ipc = pt_ipc_sext_48 THEN pt_pl_ip_sext48_size
    ELSE -pte_bad_packet

\* The PSB packet: the pattern pt_psb_hi, pt_psb_lo, repeated.
PsbBytes ==
    [i \in 1 .. 2 * (1 + pt_psb_repeat_count) |->
        IF i % 2 = 1 THEN pt_opc_ext ELSE pt_ext_psb]

\* The result of encoding: the bytes to write, or an error.
Encoded(bytes) == [errcode |-> 0, bytes |-> bytes]

NotEncoded(errcode) == [errcode |-> errcode, bytes |-> <<>>]

\* A plausible bug: the payload bits above bit_size are not checked.
encode_tnt_8_unchecked(tnt) ==
    IF tnt.bit_size < 1 \/ tnt.bit_size >= 8 - pt_opm_tnt_8_shr
    THEN NotEncoded(-pte_bad_packet)
    ELSE Encoded(<<(tnt.payload[1] * 2 ^ pt_opm_tnt_8_shr
                    + 2 ^ (tnt.bit_size + pt_opm_tnt_8_shr)) % 256>>)

\* TNT-8: the payload bits above the opcode bit, and the stop bit above
\* them.  The byte holds one to six bits: without a bit it would be the
\* opcode pt_opc_ext.
encode_tnt_8(tnt) ==
    IF tnt.bit_size < 1 \/ tnt.bit_size >= 8 - pt_opm_tnt_8_shr
    THEN NotEncoded(-pte_bad_packet)
    ELSE IF ~BitsFit(tnt.payload, tnt.bit_size)
    THEN NotEncoded(-pte_bad_packet)
    ELSE Encoded(<<tnt.payload[1] * 2 ^ pt_opm_tnt_8_shr
                   + 2 ^ (tnt.bit_size + pt_opm_tnt_8_shr)>>)

\* TNT-64: up to 47 payload bits and the stop bit above them, in six bytes.
encode_tnt_64(tnt) ==
    IF tnt.bit_size >= pt_pl_tnt_64_bits
    THEN NotEncoded(-pte_bad_packet)
    ELSE IF ~BitsFit(tnt.payload, tnt.bit_size)
    THEN NotEncoded(-pte_bad_packet)
    ELSE Encoded(<<pt_opc_ext, pt_ext_tnt_64>>
                 \o SubSeq(SetBit(tnt.payload, tnt.bit_size), 1,
                           pt_pl_tnt_64_size))

\* TIP, TIP.PGE, TIP.PGD, FUP: the compression in the upper opcode bits and
\* the bytes of the IP that the compression keeps.
encode_ip(opc, ip) ==
    LET size == pt_ipc_size(ip.ipc)
    IN  IF size < 0 THEN NotEncoded(-pte_bad_packet)
        ELSE IF ~BitsFit(ip.ip, 8 * size) THEN NotEncoded(-pte_bad_packet)
        ELSE Encoded(<<opc + ip.ipc * 2 ^ pt_opm_ipc_shr>>
                     \o SubSeq(ip.ip, 1, size))

\* MODE: the leaf in the upper three bits, its two bits in the lowest.
encode_mode(mode) ==
    IF mode.leaf \notin {pt_mol_exec, pt_mol_tsx}
    THEN NotEncoded(-pte_bad_packet)
    ELSE IF mode.leaf = pt_mol_exec
    THEN Encoded(<<pt_opc_mode,
                   pt_mol_exec + mode.bits.csl * pt_mob_exec_csl
                   + mode.bits.csd * pt_mob_exec_csd>>)
    ELSE Encoded(<<pt_opc_mode,
                   pt_mol_tsx + mode.bits.intx * pt_mob_tsx_intx
                   + mode.bits.abrt * pt_mob_tsx_abrt>>)

\* PIP: cr3 >> pt_pl_pip_shl << pt_pl_pip_shr in six bytes; the bits of cr3
\* that the payload cannot hold must be zero.
encode_pip(pip) ==
    IF pip.cr3[1] % 2 ^ pt_pl_pip_shl /= 0
    THEN NotEncoded(-pte_bad_packet)
    ELSE IF ~BitsFit(pip.cr3,
                     8 * pt_pl_pip_size - pt_pl_pip_shr + pt_pl_pip_shl)
    THEN NotEncoded(-pte_bad_packet)
    ELSE Encoded(<<pt_opc_ext, pt_ext_pip>>
                 \o SubSeq(ShiftRight(pip.cr3,
                                      pt_pl_pip_shl - pt_pl_pip_shr),
                           1, pt_pl_pip_size))

\* TSC: the low seven bytes of the time stamp.
encode_tsc(tsc) ==
    IF ~BitsFit(tsc.tsc, 8 * pt_pl_tsc_size)
    THEN NotEncoded(-pte_bad_packet)
    ELSE Encoded(<<pt_opc_tsc>> \o SubSeq(tsc.tsc, 1, pt_pl_tsc_size))

\* CBR: the ratio and a reserved byte.
encode_cbr(cbr) ==
    Encoded(<<pt_opc_ext, pt_ext_cbr, cbr.ratio>>
            \o Zeros(pt_pl_cbr_size - 1))

\* The bytes of a packet, -pte_bad_opc for a type that is not known and
\* -pte_bad_packet for a payload that the wire format cannot hold.
pt_encode(packet) ==
    LET type == packet.type
        payload == packet.payload
    IN  IF type = "ppt_pad" THEN Encoded(<<pt_opc_pad>>)
        ELSE IF type = "ppt_psb" THEN Encoded(PsbBytes)
        ELSE IF type = "ppt_psbend"
        THEN Encoded(<<pt_opc_ext, pt_ext_psbend>>)
        ELSE IF type = "ppt_ovf" THEN Encoded(<<pt_opc_ext, pt_ext_ovf>>)
        ELSE IF type = "ppt_tnt_8" THEN encode_tnt_8(payload)
        ELSE IF type = "ppt_tnt_64" THEN encode_tnt_64(payload)
        ELSE IF type \in DOMAIN IpOpcodes
        THEN encode_ip(IpOpcodes[type], payload)
        ELSE IF type = "ppt_mode" THEN encode_mode(payload)
        ELSE IF type = "ppt_pip" THEN encode_pip(payload)
        ELSE IF type = "ppt_tsc" THEN encode_tsc(payload)
        ELSE IF type = "ppt_cbr" THEN encode_cbr(payload)
        ELSE NotEncoded(-pte_bad_opc)

\* The record of a call of the codec: the position it was made at, what it
\* returned, and the packet it was given or has decoded.
CRet(op, val, at, packet) ==
    [op |-> op, val |-> val, pos |-> at, packet |-> packet]

\* A plausible bug: the packet is written before the room is checked.
enc_write_unchecked(bytes, room) ==
    [i \in 1 .. Len(trace) |->
        IF enc_pos < i /\ i <= enc_pos + Len(bytes)
        THEN bytes[i - enc_pos] ELSE trace[i]]

\* The trace buffer after pt_enc_next: the bytes are written at the
\* position of the encoder when there is room for all of them.
enc_write(bytes, room) ==
    IF ~room THEN trace
    ELSE [i \in 1 .. Len(trace) |->
             IF enc_pos < i /\ i <= enc_pos + Len(bytes)
             THEN bytes[i - enc_pos] ELSE trace[i]]

\* pt_enc_next
pt_enc_next(packet) ==
    LET e == pt_encode(packet)
        size == Len(e.bytes)
        room == enc_pos + size <= Len(trace)
        val == IF e.errcode < 0 THEN e.errcode
               ELSE IF ~room THEN -pte_eos
               ELSE size
    IN  /\ trace' = IF e.errcode < 0 THEN trace ELSE enc_write(e.bytes, room)
        /\ enc_pos' = IF val < 0 THEN enc_pos ELSE enc_pos + size
        /\ cret' = CRet("enc", val, enc_pos, packet)
        /\ encoded' = Append(encoded, [pos |-> enc_pos, packet |-> packet,
                                       val |-> val])
        /\ UNCHANGED <<pkt_pos, given, decoder, sect, qry,
                       img, cur>>

\* The result of decoding: the packet and its size, or an error.
Decoded(type, size, payload) ==
    [errcode |-> size, packet |-> Packet(type, size, payload)]

NotDecoded(errcode) == [errcode |-> errcode, packet |-> NoPacket]

\* -pte_eos when fewer bytes remain than the packet has.
Sized(bytes, size, result) ==
    IF Len(bytes) < size THEN NotDecoded(-pte_eos) ELSE result

\* A plausible bug: the stop bit is taken for a payload bit.
decode_tnt_8_stop_kept(bytes) ==
    LET stop == HighBit(bytes[1])
    IN  Decoded("ppt_tnt_8", 1,
                [bit_size |-> stop - pt_opm_tnt_8_shr + 1,
                 payload |-> UInt64(<<bytes[1] \div 2 ^ pt_opm_tnt_8_shr>>)])

\* TNT-8: the stop bit is the most significant bit that is set.
decode_tnt_8(bytes) ==
    LET stop == HighBit(bytes[1])
    IN  Decoded("ppt_tnt_8", 1,
                [bit_size |-> stop - pt_opm_tnt_8_shr,
                 payload |-> UInt64(<<(bytes[1] - 2 ^ stop)
                                      \div 2 ^ pt_opm_tnt_8_shr>>)])

\* TNT-64: the stop bit is the most significant bit that is set in the six
\* payload bytes; a payload without a stop bit is malformed.
decode_tnt_64(bytes) ==
    LET payload == SubSeq(bytes, 3, 2 + pt_pl_tnt_64_size)
        k == HighByte(payload)
        stop == HighBit(payload[k])
    IN  IF payload = Zeros(pt_pl_tnt_64_size)
        THEN NotDecoded(-pte_bad_packet)
        ELSE Decoded("ppt_tnt_64", 2 + pt_pl_tnt_64_size,
                     [bit_size |-> 8 * (k - 1) + stop,
                      payload |->
                          UInt64([payload EXCEPT ![k] = @ - 2 ^ stop])])

\* TIP, TIP.PGE, TIP.PGD, FUP: the payload is zero-extended.
decode_ip(type, bytes) ==
    LET ipc == bytes[1] \div 2 ^ pt_opm_ipc_shr
        size == pt_ipc_size(ipc)
    IN  IF size < 0 THEN NotDecoded(-pte_bad_packet)
        ELSE Sized(bytes, 1 + size,
                   Decoded(type, 1 + size,
                           [ipc |-> ipc,
                            ip |-> UInt64(SubSeq(bytes, 2, 1 + size))]))

\* MODE: the leaf and its two bits; the other bits are reserved.
decode_mode(bytes) ==
    LET leaf == (bytes[2] \div 2 ^ pt_mom_leaf_shr) * 2 ^ pt_mom_leaf_shr
        bits == bytes[2] % 2 ^ pt_mom_leaf_shr
        bit0 == bits % 2
        bit1 == (bits \div 2) % 2
    IN  IF leaf \notin {pt_mol_exec, pt_mol_tsx}
        THEN NotDecoded(-pte_bad_packet)
        ELSE IF bits >= 4 THEN NotDecoded(-pte_bad_packet)
        ELSE IF leaf = pt_mol_exec
        THEN Decoded("ppt_mode", 2,
                     [leaf |-> leaf, bits |-> [csl |-> bit0, csd |-> bit1]])
        ELSE Decoded("ppt_mode", 2,
                     [leaf |-> leaf,
                      bits |-> [intx |-> bit0, abrt |-> bit1]])

\* PIP: cr3 = payload >> pt_pl_pip_shr << pt_pl_pip_shl; the lowest payload
\* bit is reserved.
decode_pip(bytes) ==
    LET payload == SubSeq(bytes, 3, 2 + pt_pl_pip_size)
    IN  IF payload[1] % 2 ^ pt_pl_pip_shr /= 0
        THEN NotDecoded(-pte_bad_packet)
        ELSE Decoded("ppt_pip", 2 + pt_pl_pip_size,
                     [cr3 |-> ShiftLeft(UInt64(payload),
                                        pt_pl_pip_shl - pt_pl_pip_shr)])

\* CBR: the ratio; the second payload byte is reserved.
decode_cbr(bytes) ==
    IF bytes[4] /= 0 THEN NotDecoded(-pte_bad_packet)
    ELSE Decoded("ppt_cbr", 2 + pt_pl_cbr_size, [ratio |-> bytes[3]])

\* The packets behind the opcode pt_opc_ext, by their second byte.
decode_ext(bytes) ==
    LET ext == bytes[2]
    IN  IF ext = pt_ext_psb
        THEN Sized(bytes, Len(PsbBytes),
                   IF SubSeq(bytes, 1, Len(PsbBytes)) = PsbBytes
                   THEN Decoded("ppt_psb", Len(PsbBytes), NoPayload)
                   ELSE NotDecoded(-pte_bad_packet))
        ELSE IF ext = pt_ext_tnt_64
        THEN Sized(bytes, 2 + pt_pl_tnt_64_size, decode_tnt_64(bytes))
        ELSE IF ext = pt_ext_pip
        THEN Sized(bytes, 2 + pt_pl_pip_size, decode_pip(bytes))
        ELSE IF ext = pt_ext_ovf THEN Decoded("ppt_ovf", 2, NoPayload)
        ELSE IF ext = pt_ext_psbend THEN Decoded("ppt_psbend", 2, NoPayload)
        ELSE IF ext = pt_ext_cbr
        THEN Sized(bytes, 2 + pt_pl_cbr_size, decode_cbr(bytes))
        ELSE NotDecoded(-pte_bad_opc)

\* The packet at the begin of bytes: the dispatch is by the first byte, and
\* by the second after pt_opc_ext.  No decode callback is installed.
pt_decode(bytes) ==
    LET opc == bytes[1]
        ips == {type \in DOMAIN IpOpcodes :
                   IpOpcodes[type] = opc % (pt_opm_tip + 1)}
    IN  IF bytes = <<>> THEN NotDecoded(-pte_eos)
        ELSE IF opc = pt_opc_pad THEN Decoded("ppt_pad", 1, NoPayload)
        ELSE IF opc = pt_opc_ext THEN Sized(bytes, 2, decode_ext(bytes))
        ELSE IF opc = pt_opc_mode THEN Sized(bytes, 2, decode_mode(bytes))
        ELSE IF opc = pt_opc_tsc
        THEN Sized(bytes, 1 + pt_pl_tsc_size,
                   Decoded("ppt_tsc", 1 + pt_pl_tsc_size,
                           [tsc |-> UInt64(SubSeq(bytes, 2,
                                                  1 + pt_pl_tsc_size))]))
        ELSE IF ips /= {}
        THEN decode_ip(CHOOSE type \in ips : TRUE, bytes)
        ELSE IF opc % 2 ^ pt_opm_tnt_8_shr = 0 THEN decode_tnt_8(bytes)
        ELSE NotDecoded(-pte_bad_opc)

\* pt_pkt_next
pt_pkt_next ==
    LET d == pt_decode(SubSeq(trace, pkt_pos + 1, Len(trace)))
    IN  /\ pkt_pos' = IF d.errcode < 0 THEN pkt_pos ELSE pkt_pos + d.errcode
        /\ cret' = CRet("dec", d.errcode, pkt_pos, d.packet)
        /\ UNCHANGED <<trace, enc_pos, encoded, given, decoder, sect, qry,
                     img, cur>>

\* The encoder and the packet decoder as pt_alloc_encoder and
\* pt_pkt_alloc_decoder return them for a trace buffer: both start at the
\* begin of the buffer.
Encoder(buffer, recorded) ==
    /\ trace = buffer
    /\ enc_pos = 0
    /\ pkt_pos = 0
    /\ cret = CRet("alloc", 0, 0, NoPacket)
    /\ encoded = <<>>
    /\ given = recorded

(***************************************************************************)
(* Specifications.                                                         *)
(***************************************************************************)

\* The decoder pt_alloc_decoder returns (calloc, then the configuration is
\* copied) for a trace buffer [begin, end) that holds PSBs at psbs.
Alloc(begin, end, psbs) ==
    /\ ev_begin = [b \in Bindings |-> 0]
    /\ ev_end = [b \in Bindings |-> 0]
    /\ ev_pend = [b \in Bindings |-> [i \in Slots |-> ZeroEvent]]
    /\ pos = NULL
    /\ sync = NULL
    /\ config = [begin |-> begin, end |-> end]
    /\ psb_at = psbs
    /\ next = NoDfun
    /\ ret = Ret("alloc", 0, 0, NullEv, 0)
    /\ queue = [b \in Bindings |-> <<>>]
    /\ last_deq = [b \in Bindings |-> NullEv]
    /\ discarded = [b \in Bindings |-> FALSE]
    /\ n_events = 0
    /\ dec_event = NullEv
    /\ dec_tsc = Zeros(8)

\* A section of size bytes at offset of a file that ends with the section,
\* as pt_mk_section and pt_section_mk_status leave it, in a build with
\* pointers of bits bits.
Section(offset, size, bits) ==
    /\ section = [offset |-> offset, size |-> size,
                  status |-> [size |-> offset + size, mtime |-> 0],
                  mcount |-> 0, mapping |-> NoMapping,
                  unmap |-> NoFunction, read |-> NoFunction]
    /\ file = [size |-> offset + size, mtime |-> 0]
    /\ lock = 0
    /\ pc = [t \in Threads |-> "idle"]
    /\ mc = [t \in Threads |-> 0]
    /\ sret = SRet(0, "mk", 0, 0, 0, <<>>)
    /\ os = NoResources
    /\ ptr_bits = bits
    /\ n_calls = 0
    /\ n_maps = 0
    /\ n_unmaps = 0
    /\ all_ok = TRUE

(***************************************************************************)
(* The last IP and the TNT cache (struct pt_last_ip, struct pt_tnt_cache), *)
(* as the interface describes them: an IP is kept as its eight bytes,      *)
(* least significant first, like the ip field of a packet.                 *)
(***************************************************************************)

\* enum pt_error_code: the errors of the query decoder.
pte_bad_context == 6

pte_bad_query == 8

pte_noip == 11

pte_ip_suppressed == 12

\* pt_last_ip_init: no IP has been seen.
pt_last_ip_init == [ip |-> Zeros(8), have_ip |-> FALSE, suppressed |-> FALSE]

\* A plausible bug: the 48-bit payload is zero-extended.
last_ip_update_zext(last, ipc, payload) ==
    IF ipc = pt_ipc_suppressed
    THEN [last EXCEPT !.have_ip = TRUE, !.suppressed = TRUE]
    ELSE IF ipc = pt_ipc_update_16
    THEN [ip |-> SubSeq(payload, 1, 2) \o SubSeq(last.ip, 3, 8),
          have_ip |-> TRUE, suppressed |-> FALSE]
    ELSE IF ipc = pt_ipc_update_32
    THEN [ip |-> SubSeq(payload, 1, 4) \o SubSeq(last.ip, 5, 8),
          have_ip |-> TRUE, suppressed |-> FALSE]
    ELSE IF ipc = pt_ipc_sext_48
    THEN [ip |-> SubSeq(payload, 1, 6) \o <<0, 0>>,
          have_ip |-> TRUE, suppressed |-> FALSE]
    ELSE last

\* The last IP after pt_last_ip_update_ip: the payload of a packet with the
\* given compression is applied to it.
last_ip_update(last, ipc, payload) ==
    IF ipc = pt_ipc_suppressed
    THEN [last EXCEPT !.have_ip = TRUE, !.suppressed = TRUE]
    ELSE IF ipc = pt_ipc_update_16
    THEN [ip |-> SubSeq(payload, 1, 2) \o SubSeq(last.ip, 3, 8),
          have_ip |-> TRUE, suppressed |-> FALSE]
    ELSE IF ipc = pt_ipc_update_32
    THEN [ip |-> SubSeq(payload, 1, 4) \o SubSeq(last.ip, 5, 8),
          have_ip |-> TRUE, suppressed |-> FALSE]
    ELSE IF ipc = pt_ipc_sext_48
    THEN LET sign == IF payload[6] >= 128 THEN 255 ELSE 0
         IN  [ip |-> SubSeq(payload, 1, 6) \o <<sign, sign>>,
              have_ip |-> TRUE, suppressed |-> FALSE]
    ELSE last

\* The value pt_last_ip_update_ip returns.
last_ip_update_result(ipc) ==
    IF ipc \in {pt_ipc_suppressed, pt_ipc_update_16, pt_ipc_update_32,
                pt_ipc_sext_48}
    THEN 0
    ELSE -pte_bad_packet

\* The value pt_last_ip_query returns.
last_ip_query_result(last) ==
    IF ~last.have_ip THEN -pte_noip
    ELSE IF last.suppressed THEN -pte_ip_suppressed
    ELSE 0

\* The record of a query, or of a call on the last IP: its name, its status,
\* and what it was given or gave back (a compression and an IP, a taken bit,
\* an event).
QRet(op, val, ipc, ip, taken, ev) ==
    [op |-> op, val |-> val, ipc |-> ipc, ip |-> ip, taken |-> taken,
     ev |-> ev]

\* No event is given back.
NoEvent == [type |-> -1, evb |-> -1, idx |-> -1]

\* pt_last_ip_update_ip
pt_last_ip_update_ip(ipc, payload) ==
    /\ last_ip' = last_ip_update(last_ip, ipc, payload)
    /\ qret' = QRet("update_ip", last_ip_update_result(ipc), ipc, payload, 0,
                    NoEvent)
    /\ UNCHANGED <<tnt_cache, in_psb, query>>

\* pt_last_ip_query
pt_last_ip_query ==
    LET errcode == last_ip_query_result(last_ip)
    IN  /\ qret' = QRet("query_ip", errcode, 0,
                        IF errcode < 0 THEN Zeros(8) ELSE last_ip.ip, 0,
                        NoEvent)
        /\ UNCHANGED <<last_ip, tnt_cache, in_psb, query>>

\* No query is in progress.
NoQuery ==
    [op |-> "idle", step |-> "idle", cond_next |-> FALSE, ev |-> NoEvent]

\* The query decoder as pt_alloc_decoder returns it, with the given last IP.
Query(ip) ==
    /\ last_ip = ip
    /\ tnt_cache = <<>>
    /\ in_psb = FALSE
    /\ query = NoQuery
    /\ qret = QRet("alloc", 0, 0, Zeros(8), 0, NoEvent)

(***************************************************************************)
(* The traced image, as the interface describes it.                        *)
(***************************************************************************)

\* static const uint64_t pt_asid_no_cr3: all bits of a uint64_t set.
pt_asid_no_cr3 == uint64(-1)

\* The files that sections are loaded from.
FileNames == {"a", "b"}

\* The size of a file in bytes.
FileSize(filename) == IF filename = "a" THEN 2 ELSE 1

\* No section.
NoSection == [filename |-> "", offset |-> 0, size |-> 0, cr3 |-> 0,
              vaddr |-> 0]

\* The section that pt_image_add_file makes of its arguments: the size is
\* truncated to the size of the file; no section is made of an offset that
\* lies behind the file.
mk_section(filename, offset, size, cr3, vaddr) ==
    IF FileSize(filename) <= offset THEN NoSection
    ELSE [filename |-> filename, offset |-> offset,
          size |-> IF FileSize(filename) - offset < size
                   THEN FileSize(filename) - offset ELSE size,
          cr3 |-> cr3, vaddr |-> vaddr]

\* A plausible bug: the CR3 values are compared without regard to
\* pt_asid_no_cr3.
asid_match_exact(a, b) == a = b

\* Two address spaces match: pt_asid_no_cr3 matches any CR3, another CR3
\* matches itself only.
asid_match(a, b) ==
    \/ a = pt_asid_no_cr3
    \/ b = pt_asid_no_cr3
    \/ a = b

\* Two sections overlap: their address spaces match and their ranges
\* vaddr .. vaddr + size share an address.
section_overlap(s, t) ==
    /\ asid_match(s.cr3, t.cr3)
    /\ s.vaddr < t.vaddr + t.size
    /\ t.vaddr < s.vaddr + s.size

\* The record of a call on the image: its name, its result, the section
\* that pt_image_add_file made and the image that pt_image_copy was given.
IRet(op, val, sec, src) == [op |-> op, val |-> val, sec |-> sec, src |-> src]

\* pt_image_add_file
pt_image_add_file(filename, offset, size, cr3, vaddr) ==
    LET sec == mk_section(filename, offset, size, cr3, vaddr)
    IN  /\ IF sec = NoSection
           THEN /\ iret' = IRet("add_file", -pte_invalid, sec, "")
                /\ image' = image
           ELSE IF \E other \in image : section_overlap(sec, other)
           THEN /\ iret' = IRet("add_file", -pte_bad_image, sec, "")
                /\ image' = image
           ELSE /\ iret' = IRet("add_file", 0, sec, "")
                /\ image' = image \cup {sec}
        /\ UNCHANGED src_image

\* pt_image_copy: the sections of src are added one after the other; a
\* section that overlaps with a section of the image is ignored and counted.
RECURSIVE image_copy(_, _, _)
image_copy(dst, rest, ignored) ==
    IF rest = {} THEN [image |-> dst, ignored |-> ignored]
    ELSE LET sec == CHOOSE s \in rest : TRUE
         IN  IF \E other \in dst : section_overlap(sec, other)
             THEN image_copy(dst, rest \ {sec}, ignored + 1)
             ELSE image_copy(dst \cup {sec}, rest \ {sec}, ignored)

\* pt_image_copy
pt_image_copy(src) ==
    LET sections == IF src = "image" THEN image ELSE src_image
        copy == image_copy(image, sections, 0)
    IN  /\ image' = copy.image
        /\ iret' = IRet("copy", copy.ignored, NoSection, src)
        /\ UNCHANGED src_image

\* pt_image_remove_by_filename
pt_image_remove_by_filename(filename, cr3) ==
    LET removed == {sec \in image : /\ sec.filename = filename
                                    /\ asid_match(sec.cr3, cr3)}
    IN  /\ image' = image \ removed
        /\ iret' = IRet("remove_by_filename", Cardinality(removed),
                        NoSection, "")
        /\ UNCHANGED src_image

\* pt_image_remove_by_asid
pt_image_remove_by_asid(cr3) ==
    LET removed == {sec \in image : asid_match(sec.cr3, cr3)}
    IN  /\ image' = image \ removed
        /\ iret' = IRet("remove_by_asid", Cardinality(removed), NoSection, "")
        /\ UNCHANGED src_image

\* The image as pt_image_alloc returns it, and the image that is copied.
Image(sections, src) ==
    /\ image = sections
    /\ src_image = src
    /\ iret = IRet("alloc", 0, NoSection, "")

(***************************************************************************)
(* The query decoder, as the interface describes it.  A query is a loop    *)
(* over the packets from the position of the decoder on.  One step of the  *)
(* model is one turn of that loop, or the part of a turn that ends with a  *)
(* call into pt_state.c: pt_enqueue_event, pt_dequeue_event or pt_advance. *)
(***************************************************************************)

\* enum pt_status_flag
pts_ip_suppressed == 2

\* enum pt_event_type: the events of a MODE packet.
ptev_exec_mode == 7

ptev_tsx == 8

\* The packet at an address of the trace buffer.
packet_at(at) == pt_decode(SubSeq(trace, at - config.begin + 1, Len(trace)))

\* The packet at the position of the decoder.
cur_packet == packet_at(pos).packet

\* The flags of the decode function of a packet: TIP.PGE and TIP.PGD are
\* event packets; PSBEND, TIP and FUP release the events of their binding.
dfun_flags(type) ==
    IF type = "ppt_tip" THEN {"pdff_tip"}
    ELSE IF type \in {"ppt_tip_pge", "ppt_tip_pgd"} THEN {"pdff_event"}
    ELSE IF type = "ppt_fup" THEN {"pdff_fup"}
    ELSE IF type = "ppt_psbend" THEN {"pdff_psbend"}
    ELSE IF type \in {"ppt_tnt_8", "ppt_tnt_64"} THEN {"pdff_tnt"}
    ELSE {}

\* The decode function of the packet at an address: NULL at the end of the
\* trace and for bytes that are no packet.
fetch_decoder(at) ==
    IF config.end <= at THEN NoDfun
    ELSE LET d == packet_at(at)
         IN  IF d.errcode < 0 THEN NoDfun
             ELSE Dfun(dfun_flags(d.packet.type))

\* A plausible bug: TIP.PGE and TIP.PGD release no binding.
released_by_tip_only(type) ==
    IF type = "ppt_psbend" THEN evb_psbend
    ELSE IF type = "ppt_tip" THEN evb_tip
    ELSE IF type = "ppt_fup" THEN evb_fup
    ELSE evb_max

\* The binding whose events a packet releases; evb_max for a packet that
\* releases none.
released_by(type) ==
    IF type = "ppt_psbend" THEN evb_psbend
    ELSE IF type \in {"ppt_tip", "ppt_tip_pge", "ppt_tip_pgd"} THEN evb_tip
    ELSE IF type = "ppt_fup" THEN evb_fup
    ELSE evb_max

\* The packet at the position releases a binding that has events pending.
releases_pending ==
    LET evb == released_by(cur_packet.type)
    IN  evb < evb_max /\ event_pending(evb) = 1

\* The binding of the event of a MODE packet: the end of PSB+ inside of
\* PSB+; else the next TIP for MODE.Exec and the next FUP for MODE.TSX.
mode_binding(mode) ==
    IF in_psb THEN evb_psbend
    ELSE IF mode.leaf = pt_mol_exec THEN evb_tip
    ELSE evb_fup

\* The type of the event of a MODE packet.
mode_event(mode) ==
    IF mode.leaf = pt_mol_exec THEN ptev_exec_mode ELSE ptev_tsx

\* Bit k of a payload.
payload_bit(bytes, k) == (bytes[(k \div 8) + 1] \div 2 ^ (k % 8)) % 2

\* A plausible bug: the bits of a TNT packet are staged lowest bit first.
tnt_bits_reversed(tnt) ==
    [i \in 1 .. tnt.bit_size |-> payload_bit(tnt.payload, i - 1)]

\* The bits of a TNT packet, oldest first: the oldest is the bit below the
\* stop bit.
tnt_bits(tnt) ==
    [i \in 1 .. tnt.bit_size |-> payload_bit(tnt.payload, tnt.bit_size - i)]

\* What a packet that is decoded leaves of the last IP, the TNT cache and
\* PSB+.
decoded_state(packet) ==
    LET type == packet.type
    IN  [last_ip |-> IF type \in DOMAIN IpOpcodes
                     THEN last_ip_update(last_ip, packet.payload.ipc,
                                         packet.payload.ip)
                     ELSE last_ip,
         tnt_cache |-> IF type \in {"ppt_tnt_8", "ppt_tnt_64"}
                       THEN tnt_bits(packet.payload)
                       ELSE tnt_cache,
         in_psb |-> IF type = "ppt_psb" THEN TRUE
                    ELSE IF type = "ppt_psbend" THEN FALSE
                    ELSE in_psb]

\* pt_status_flags says that an event is pending.
event_is_pending == (status_flags \div pts_event_pending) % 2 = 1

\* A plausible bug: pt_qry_indirect_branch decodes a TNT packet while the
\* TNT cache is empty, as pt_qry_cond_branch does.
qry_error_tnt_decoded(op) ==
    IF op = "cond_branch"
    THEN IF tnt_cache /= <<>> THEN 0
         ELSE IF next.null THEN -pte_eos
         ELSE IF event_is_pending THEN -pte_bad_query
         ELSE IF "pdff_tip" \in next.flags THEN -pte_bad_query
         ELSE 0
    ELSE IF op = "indirect_branch"
    THEN IF tnt_cache /= <<>> THEN -pte_bad_query
         ELSE IF next.null THEN -pte_eos
         ELSE IF event_is_pending THEN -pte_bad_query
         ELSE 0
    ELSE IF tnt_cache /= <<>> THEN -pte_bad_query
         ELSE IF next.null THEN -pte_eos
         ELSE IF event_is_pending THEN 0
         ELSE IF "pdff_tnt" \in next.flags THEN -pte_bad_query
         ELSE IF "pdff_tip" \in next.flags THEN -pte_bad_query
         ELSE 0

\* The error that ends a query at the packet it has reached, 0 for none.
\* A conditional branch is asked for: an event or a TIP comes first.  An
\* indirect branch is asked for: a conditional branch or an event comes
\* first.  An event is asked for: a conditional or indirect branch comes
\* first.
qry_error(op) ==
    IF op = "cond_branch"
    THEN IF tnt_cache /= <<>> THEN 0
         ELSE IF next.null THEN -pte_eos
         ELSE IF event_is_pending THEN -pte_bad_query
         ELSE IF "pdff_tip" \in next.flags THEN -pte_bad_query
         ELSE 0
    ELSE IF op = "indirect_branch"
    THEN IF tnt_cache /= <<>> THEN -pte_bad_query
         ELSE IF next.null THEN -pte_eos
         ELSE IF event_is_pending THEN -pte_bad_query
         ELSE IF "pdff_tnt" \in next.flags THEN -pte_bad_query
         ELSE 0
    ELSE IF tnt_cache /= <<>> THEN -pte_bad_query
         ELSE IF next.null THEN -pte_eos
         ELSE IF event_is_pending THEN 0
         ELSE IF "pdff_tnt" \in next.flags THEN -pte_bad_query
         ELSE IF "pdff_tip" \in next.flags THEN -pte_bad_query
         ELSE 0

\* The query is in its loop and goes on with the packet at the position.
qry_proceeds ==
    /\ query.step = "loop"
    /\ qry_error(query.op) = 0
    /\ ~(query.op = "cond_branch" /\ tnt_cache /= <<>>)

\* The query returns.
qry_return(val, ip, taken, ev) ==
    /\ qret' = QRet(query.op, val, 0, ip, taken, ev)
    /\ query' = NoQuery

\* pt_qry_cond_branch, pt_qry_indirect_branch or pt_qry_event is called.
\* The call notes whether a conditional branch is next in the trace.
qry_call(op) ==
    /\ query.op = "idle"
    /\ pos /= NULL
    /\ query' = [op |-> op, step |-> "loop",
                 cond_next |-> tnt_cache /= <<>> \/ "pdff_tnt" \in next.flags,
                 ev |-> NoEvent]
    /\ UNCHANGED <<ring, ghost, position, next, ret, last_ip, tnt_cache,
                   in_psb, qret>>

\* The query fails.
qry_fail ==
    /\ query.step = "loop"
    /\ qry_error(query.op) < 0
    /\ qry_return(qry_error(query.op), Zeros(8), 0, NoEvent)
    /\ UNCHANGED <<ring, ghost, position, next, ret, last_ip, tnt_cache,
                   in_psb>>

\* pt_qry_cond_branch: the oldest bit of the TNT cache is the answer.
qry_cond_pop ==
    /\ query.step = "loop"
    /\ query.op = "cond_branch"
    /\ tnt_cache /= <<>>
    /\ tnt_cache' = Tail(tnt_cache)
    /\ qry_return(status_flags, Zeros(8), Head(tnt_cache), NoEvent)
    /\ UNCHANGED <<ring, ghost, position, next, ret, last_ip, in_psb>>

\* pt_qry_event at a packet that releases a binding with events pending:
\* the oldest event of the binding is the answer.  PSBEND and FUP are
\* consumed with the last event they release; a TIP is left for
\* pt_qry_indirect_branch, TIP.PGE and TIP.PGD for their own event.
qry_event_dequeue ==
    LET type == cur_packet.type
        evb == released_by(type)
        ev == dequeue_result(evb)
        event == [type |-> ev_pend[evb][ev.idx].type, evb |-> evb,
                  idx |-> ev.idx]
        last == pt_queue_inc(ev_begin[evb]) = ev_end[evb]
    IN  /\ qry_proceeds
        /\ query.op = "event"
        /\ releases_pending
        /\ pt_dequeue_event(evb)
        /\ UNCHANGED <<next, last_ip, tnt_cache, in_psb>>
        /\ IF last /\ type \in {"ppt_psbend", "ppt_fup"}
           THEN /\ query' = [query EXCEPT !.step = "consume", !.ev = event]
                /\ UNCHANGED qret
           ELSE qry_return(status_flags', Zeros(8), 0, event)

\* The packet whose last event has been taken is consumed, and pt_qry_event
\* returns that event.
qry_event_consume ==
    LET packet == cur_packet
        state == decoded_state(packet)
    IN  /\ query.step = "consume"
        /\ pt_advance(packet.size)
        /\ next' = fetch_decoder(pos + packet.size)
        /\ last_ip' = state.last_ip
        /\ tnt_cache' = state.tnt_cache
        /\ in_psb' = state.in_psb
        /\ qry_return(status_flags', Zeros(8), 0, query.ev)

\* A packet other than MODE is decoded: the state is updated and the packet
\* is consumed.  pt_qry_indirect_branch returns with the IP of a TIP,
\* pt_qry_event with the event of a TIP.PGE or TIP.PGD.
qry_decode ==
    LET packet == cur_packet
        type == packet.type
        state == decoded_state(packet)
    IN  /\ qry_proceeds
        /\ type /= "ppt_mode"
        /\ ~(query.op = "event" /\ releases_pending)
        /\ pt_advance(packet.size)
        /\ next' = fetch_decoder(pos + packet.size)
        /\ last_ip' = state.last_ip
        /\ tnt_cache' = state.tnt_cache
        /\ in_psb' = state.in_psb
        /\ IF query.op = "indirect_branch" /\ type = "ppt_tip"
           THEN qry_return(IF state.last_ip.suppressed
                           THEN or_flag(status_flags', pts_ip_suppressed)
                           ELSE status_flags',
                           state.last_ip.ip, 0, NoEvent)
           ELSE IF query.op = "event" /\ type = "ppt_tip_pge"
           THEN qry_return(status_flags', state.last_ip.ip, 0,
                           [type |-> ptev_enabled, evb |-> evb_max,
                            idx |-> 0])
           ELSE IF query.op = "event" /\ type = "ppt_tip_pgd"
           THEN qry_return(status_flags', state.last_ip.ip, 0,
                           [type |-> ptev_disabled, evb |-> evb_max,
                            idx |-> 0])
           ELSE UNCHANGED <<query, qret>>

\* A MODE packet is decoded: its event is enqueued.  The query fails when
\* the ring of the binding is full.
qry_mode_enqueue ==
    LET mode == cur_packet.payload
        evb == mode_binding(mode)
    IN  /\ qry_proceeds
        /\ cur_packet.type = "ppt_mode"
        /\ pt_enqueue_event(evb, mode_event(mode))
        /\ UNCHANGED <<next, last_ip, tnt_cache, in_psb>>
        /\ IF enqueue_result(evb) = NullEv
           THEN qry_return(-pte_nomem, Zeros(8), 0, NoEvent)
           ELSE /\ query' = [query EXCEPT !.step = "advance"]
                /\ UNCHANGED qret

\* The MODE packet whose event has been enqueued is consumed.
qry_mode_advance ==
    /\ query.step = "advance"
    /\ pt_advance(cur_packet.size)
    /\ next' = fetch_decoder(pos + cur_packet.size)
    /\ query' = [query EXCEPT !.step = "loop"]
    /\ UNCHANGED <<last_ip, tnt_cache, in_psb, qret>>

\* The decoder is synchronized onto the PSB at the begin of the trace and
\* fetches the decode function of that packet.
qry_sync ==
    /\ pos = NULL
    /\ pt_sync_set(0)
    /\ next' = fetch_decoder(config.begin)
    /\ UNCHANGED qry

(***************************************************************************)
(* pt_state.c: pt_reset.                                                   *)
(***************************************************************************)

\* A plausible bug: the loop of pt_reset starts behind the first binding.
reset_index_but_first(index) ==
    [b \in Bindings |-> IF b = 0 THEN index[b] ELSE 0]

\* decoder->ev_begin and decoder->ev_end after pt_reset has called
\* pt_discard_events for every binding.
reset_index(index) == [b \in Bindings |-> 0]

\* decoder->tnt after pt_tnt_cache_init.
reset_tnt == <<>>

\* void pt_reset(struct pt_decoder *decoder)
pt_reset ==
    /\ in_psb' = FALSE
    /\ dec_event' = NullEv
    /\ dec_tsc' = Zeros(8)
    /\ last_ip' = pt_last_ip_init
    /\ tnt_cache' = reset_tnt
    /\ ev_begin' = reset_index(ev_begin)
    /\ ev_end' = reset_index(ev_end)
    /\ queue' = [b \in Bindings |-> <<>>]
    /\ discarded' = [b \in Bindings |-> TRUE]
    /\ ret' = Ret("reset", evb_max, 0, NullEv, 0)
    /\ UNCHANGED <<ev_pend, last_deq, position, next>>

(***************************************************************************)
(* pt_state.c: pt_alloc_decoder.                                           *)
(***************************************************************************)

\* sizeof(struct pt_config), in the scale of the model.
sizeof_config == 4

\* No configuration: the NULL pointer.
NoConfig == [null |-> TRUE, size |-> 0, begin |-> NULL, end |-> NULL]

\* A configuration with the given size field and buffer.
Config(size, begin, end) ==
    [null |-> FALSE, size |-> size, begin |-> begin, end |-> end]

\* static inline void pt_config_init(struct pt_config *config)
pt_config_init == Config(sizeof_config, NULL, NULL)

\* A plausible bug: a buffer that ends where it begins is rejected.
config_valid_not_empty(cfg) ==
    /\ ~cfg.null
    /\ cfg.size = sizeof_config
    /\ cfg.begin /= NULL
    /\ cfg.end /= NULL
    /\ ~(cfg.end <= cfg.begin)

\* The configuration passes the tests of pt_alloc_decoder.
config_valid(cfg) ==
    /\ ~cfg.null
    /\ ~(cfg.size /= sizeof_config)
    /\ ~(cfg.begin = NULL \/ cfg.end = NULL)
    /\ ~(cfg.end < cfg.begin)

\* pt_alloc_decoder returns a decoder: the configuration is valid and calloc
\* has not failed.
alloc_result(cfg, calloc_ok) == config_valid(cfg) /\ calloc_ok

\* struct pt_decoder *pt_alloc_decoder(const struct pt_config *config):
\* calloc zeroes the decoder, the configuration is copied, and the last IP
\* and the TNT cache are initialized.
pt_alloc_decoder(cfg, calloc_ok) ==
    /\ ret' = Ret("alloc", 0, [config |-> cfg, calloc |-> calloc_ok], NullEv,
                  IF alloc_result(cfg, calloc_ok) THEN 1 ELSE 0)
    /\ IF alloc_result(cfg, calloc_ok)
       THEN /\ ev_begin' = [b \in Bindings |-> 0]
            /\ ev_end' = [b \in Bindings |-> 0]
            /\ ev_pend' = [b \in Bindings |-> [i \in Slots |-> ZeroEvent]]
            /\ pos' = NULL
            /\ sync' = NULL
            /\ config' = [begin |-> cfg.begin, end |-> cfg.end]
            /\ next' = NoDfun
            /\ queue' = [b \in Bindings |-> <<>>]
            /\ last_deq' = [b \in Bindings |-> NullEv]
            /\ discarded' = [b \in Bindings |-> FALSE]
            /\ dec_event' = NullEv
            /\ dec_tsc' = Zeros(8)
            /\ last_ip' = pt_last_ip_init
            /\ tnt_cache' = <<>>
            /\ in_psb' = FALSE
       ELSE UNCHANGED <<ring, ghost, pos, sync, config, next, cur, last_ip,
                        tnt_cache, in_psb>>
    /\ UNCHANGED psb_at

\* pt_get_decoder_pos, as a call.
pt_get_decoder_pos_call ==
    /\ ret' = Ret("get_pos", 0, 0, NullEv, pt_get_decoder_pos)
    /\ UNCHANGED <<ring, ghost, position, next>>

\* pt_get_decoder_sync, as a call.
pt_get_decoder_sync_call ==
    /\ ret' = Ret("get_sync", 0, 0, NullEv, pt_get_decoder_sync)
    /\ UNCHANGED <<ring, ghost, position, next>>

(***************************************************************************)
(* intel-pt.h: the execution mode of a MODE.exec packet.                   *)
(***************************************************************************)

\* enum pt_exec_mode
ptem_unknown == 0

ptem_16bit == 1

ptem_32bit == 2

ptem_64bit == 3

ExecModes == {ptem_unknown, ptem_16bit, ptem_32bit, ptem_64bit}

\* struct pt_packet_mode_exec: two bit-fields of one bit.
ModeExec(csl, csd) == [csl |-> csl % 2, csd |-> csd % 2]

\* A plausible bug: with csl set, the test of csd is inverted.
get_exec_mode_csd_inverted(packet) ==
    IF packet.csl /= 0
    THEN IF packet.csd /= 0 THEN ptem_64bit ELSE ptem_unknown
    ELSE IF packet.csd /= 0 THEN ptem_32bit ELSE ptem_16bit

\* static inline enum pt_exec_mode
\* pt_get_exec_mode(const struct pt_packet_mode_exec *packet)
pt_get_exec_mode(packet) ==
    IF packet.csl /= 0
    THEN IF packet.csd /= 0 THEN ptem_unknown ELSE ptem_64bit
    ELSE IF packet.csd /= 0 THEN ptem_32bit ELSE ptem_16bit

\* static inline struct pt_packet_mode_exec
\* pt_set_exec_mode(enum pt_exec_mode mode)
pt_set_exec_mode(mode) ==
    IF mode = ptem_64bit THEN ModeExec(1, 0)
    ELSE IF mode = ptem_32bit THEN ModeExec(0, 1)
    ELSE IF mode = ptem_16bit THEN ModeExec(0, 0)
    ELSE ModeExec(1, 1)

\* The record of a call of one of the two.
MRet(op, mode, bits) == [op |-> op, mode |-> mode, bits |-> bits]

\* A decoder over an empty trace buffer.
Init ==
    /\ Alloc(BufBase, BufBase, {})
    /\ Section(0, 1, Bits64)
    /\ Encoder(<<>>, FALSE)
    /\ Query(pt_last_ip_init)
    /\ Image({}, {})

\* A decoder over a trace buffer of any size up to MaxBuf, with PSBs at any
\* offsets that leave room for the whole packet.
InitPos ==
    \E size \in 0 .. MaxBuf :
        \E psbs \in SUBSET {o \in 0 .. MaxBuf : o + ptps_psb <= size} :
            /\ Alloc(BufBase, BufBase + size, psbs)
            /\ Section(0, 1, Bits64)
            /\ Encoder(<<>>, FALSE)
    /\ Query(pt_last_ip_init)
    /\ Image({}, {})

\* The ring of binding evb is as pt_alloc_decoder left it.
Idle(evb) ==
    /\ ev_begin[evb] = 0
    /\ ev_end[evb] = 0
    /\ ev_pend[evb] = [i \in Slots |-> ZeroEvent]
    /\ queue[evb] = <<>>
    /\ last_deq[evb] = NullEv
    /\ ~discarded[evb]

\* SpecRing: the caller works on one binding; the other rings are idle.
OneRing(evb) == \A other \in Bindings \ {evb} : Idle(other)

RingEnqueue ==
    /\ \E evb \in EvbArgs, type \in EventTypes :
          OneRing(evb) /\ pt_enqueue_event(evb, type)
    /\ UNCHANGED <<n_events, next, sect, codec, qry, img, cur>>

RingDequeue ==
    /\ \E evb \in EvbArgs : OneRing(evb) /\ pt_dequeue_event(evb)
    /\ UNCHANGED <<n_events, next, sect, codec, qry, img, cur>>

RingDiscard ==
    /\ \E evb \in EvbArgs : OneRing(evb) /\ pt_discard_events(evb)
    /\ UNCHANGED <<n_events, next, sect, codec, qry, img, cur>>

RingPending ==
    /\ \E evb \in EvbArgs : OneRing(evb) /\ pt_event_pending(evb)
    /\ UNCHANGED <<n_events, next, sect, codec, qry, img, cur>>

RingFind ==
    /\ \E evb \in EvbArgs, type \in EventTypes :
          OneRing(evb) /\ pt_find_event(type, evb)
    /\ UNCHANGED <<n_events, next, sect, codec, qry, img, cur>>

NextRing ==
    \/ RingEnqueue
    \/ RingDequeue
    \/ RingDiscard
    \/ RingPending
    \/ RingFind

SpecRing == Init /\ [][NextRing]_vars

\* SpecEvents: the caller works on all bindings, and enqueues MaxEvents times.
EventsEnqueue ==
    /\ n_events < MaxEvents
    /\ n_events' = n_events + 1
    /\ \E evb \in EvbArgs, type \in EventTypes : pt_enqueue_event(evb, type)
    /\ UNCHANGED <<next, sect, codec, qry, img, cur>>

EventsDequeue ==
    /\ \E evb \in EvbArgs : pt_dequeue_event(evb)
    /\ UNCHANGED <<n_events, next, sect, codec, qry, img, cur>>

EventsDiscard ==
    /\ \E evb \in EvbArgs : pt_discard_events(evb)
    /\ UNCHANGED <<n_events, next, sect, codec, qry, img, cur>>

EventsPending ==
    /\ \E evb \in EvbArgs : pt_event_pending(evb)
    /\ UNCHANGED <<n_events, next, sect, codec, qry, img, cur>>

EventsFind ==
    /\ \E evb \in EvbArgs, type \in EventTypes : pt_find_event(type, evb)
    /\ UNCHANGED <<n_events, next, sect, codec, qry, img, cur>>

NextEvents ==
    \/ EventsEnqueue
    \/ EventsDequeue
    \/ EventsDiscard
    \/ EventsPending
    \/ EventsFind

SpecEvents == Init /\ [][NextEvents]_vars

\* SpecPos: the caller synchronizes the decoder and moves its position.
PosAdvance ==
    /\ \E size \in (-MaxStep) .. MaxStep : pt_advance(size)
    /\ UNCHANGED <<n_events, next, sect, codec, qry, img, cur>>

PosSyncForward ==
    /\ pt_sync_forward
    /\ UNCHANGED <<n_events, next, sect, codec, qry, img, cur>>

PosSyncSet ==
    /\ \E offset \in 0 .. MaxBuf : pt_sync_set(offset)
    /\ UNCHANGED <<n_events, next, sect, codec, qry, img, cur>>

NextPos ==
    \/ PosAdvance
    \/ PosSyncForward
    \/ PosSyncSet

SpecPos == InitPos /\ [][NextPos]_vars

\* SpecStatus: packets are fetched, events are enqueued (MaxEvents times)
\* and dequeued, and the status flags are asked for.
StatusEnqueue ==
    /\ n_events < MaxEvents
    /\ n_events' = n_events + 1
    /\ \E evb \in Bindings, type \in EventTypes : pt_enqueue_event(evb, type)
    /\ UNCHANGED <<next, sect, codec, qry, img, cur>>

StatusDequeue ==
    /\ \E evb \in Bindings : pt_dequeue_event(evb)
    /\ UNCHANGED <<n_events, next, sect, codec, qry, img, cur>>

StatusFetch ==
    /\ \E dfun \in {NoDfun} \cup {Dfun(f) : f \in SUBSET DfunFlags} :
          pt_fetch_decoder(dfun)
    /\ UNCHANGED <<n_events, sect, codec, qry, img, cur>>

StatusFlags ==
    /\ pt_status_flags
    /\ UNCHANGED <<n_events, sect, codec, qry, img, cur>>

NextStatus ==
    \/ StatusEnqueue
    \/ StatusDequeue
    \/ StatusFetch
    \/ StatusFlags

SpecStatus == Init /\ [][NextStatus]_vars

\* The outcomes of the calls that pt_section_map makes into the system:
\* whether CreateFile (first and second attempt), _open_osfhandle, _fstat,
\* CreateFileMapping, MapViewOfFile, malloc, _fdopen and pt_section_unlock
\* succeed, what pt_sec_file_map returns, and where the system puts a view.
\* A call that is not reached once an earlier call has failed is left out:
\* its outcome is fixed.
Envs(bases) ==
    {env \in [open1 : BOOLEAN, open2 : BOOLEAN, osf : BOOLEAN,
              fstat : BOOLEAN, cfm : BOOLEAN, view : BOOLEAN,
              malloc : BOOLEAN, fdopen : BOOLEAN,
              filemap : {0, -pte_nomem}, unlock : BOOLEAN, base : bases] :
        /\ env.open1 => env.open2
        /\ ~env.open2 => env.osf
        /\ ~env.osf => env.fstat
        /\ ~env.fstat => env.cfm /\ env.fdopen
        /\ ~env.cfm => env.view
        /\ ~env.view => env.malloc
        /\ ~env.fdopen => env.filemap = 0}

\* The lowest address at which the system can place a view of len bytes.
FreeBase(o, len) ==
    LET free == {n \in 1 .. (Cardinality(o.views) + 1) :
                    ViewFree(o, n * granularity, len)}
    IN  granularity * (CHOOSE n \in free : \A m \in free : n <= m)

\* SpecSection: the lock of the section works: pt_section_lock and
\* pt_section_unlock succeed.
SectionEnvs == {env \in Envs({granularity}) : env.unlock}

\* SpecSection: the system puts a view at the lowest address that is free.
SectionEnv(env) ==
    [env EXCEPT !.base = FreeBase(os, granularity)]

\* SpecSection: the threads map and unmap a section of two bytes, at an
\* offset that is or is not a multiple of the allocation granularity, while
\* the file may be written.
InitSection ==
    /\ Alloc(BufBase, BufBase, {})
    /\ \E offset \in {0, 1} : Section(offset, 2, Bits64)
    /\ Encoder(<<>>, FALSE)
    /\ Query(pt_last_ip_init)
    /\ Image({}, {})

SectionCall ==
    \E t \in Threads : pt_section_map_call(t)

SectionLock ==
    \E t \in Threads : pt_section_map_lock(t, TRUE)

SectionCount ==
    \E t \in Threads : pt_section_map_count(t, TRUE)

SectionMapped ==
    \E t \in Threads : pt_section_map_mapped(t, TRUE)

SectionUnmapped ==
    \E t \in Threads, env \in SectionEnvs :
        pt_section_map_unmapped(t, SectionEnv(env))

SectionUnmap ==
    \E t \in Threads : pt_section_unmap(t)

SectionFileWrite ==
    \E size \in {section.status.size, section.status.size + 1},
       mtime \in {0, 1} :
        /\ size = section.status.size \/ mtime = 1
        /\ FileWrite(size, mtime)

NextSection ==
    \/ SectionCall
    \/ SectionLock
    \/ SectionCount
    \/ SectionMapped
    \/ SectionUnmapped
    \/ SectionUnmap
    \/ SectionFileWrite

SpecSection == InitSection /\ [][NextSection]_vars

\* A step of thread t inside pt_section_map, from the wait for the lock to
\* the return.
SectionStep(t) ==
    \/ pt_section_map_lock(t, TRUE)
    \/ pt_section_map_count(t, TRUE)
    \/ pt_section_map_mapped(t, TRUE)
    \/ \E env \in SectionEnvs : pt_section_map_unmapped(t, SectionEnv(env))

\* SpecSectionFair: SpecSection with threads that keep running: a thread
\* inside pt_section_map that can take its next step takes it; a thread
\* that waits for the lock gets it once the lock stays free.
SpecSectionFair ==
    SpecSection /\ \A t \in Threads : WF_vars(SectionStep(t))

\* SpecView: every call into the system succeeds, and the system puts a view
\* at one of two addresses.
ViewEnvs ==
    {env \in Envs({granularity, 2 * granularity}) :
        /\ env.open1 /\ env.osf /\ env.fstat /\ env.cfm /\ env.view
        /\ env.malloc /\ env.fdopen /\ env.filemap = 0 /\ env.unlock}

\* SpecView: the offsets that pt_sec_windows_read is given: the first bytes
\* of the file, and the offsets around the pointer width of a 32-bit build
\* and at the end of the 64-bit range.
ReadOffsets ==
    (0 .. MaxRead) \cup {2 ^ Bits32 - 1, 2 ^ Bits32, 2 ^ Bits32 + 1,
                         2 ^ Bits64 - 2, 2 ^ Bits64 - 1}

\* SpecView: one thread maps a section of one to MaxRead bytes, at an offset
\* that is or is not a multiple of the allocation granularity, in a 32-bit
\* or a 64-bit build, reads from it and unmaps it.
InitView ==
    /\ Alloc(BufBase, BufBase, {})
    /\ \E offset \in {0, 1, granularity + 1}, size \in 1 .. MaxRead,
          bits \in {Bits32, Bits64} : Section(offset, size, bits)
    /\ Encoder(<<>>, FALSE)
    /\ Query(pt_last_ip_init)
    /\ Image({}, {})

ViewCall == pt_section_map_call(1)

ViewLock == pt_section_map_lock(1, TRUE)

ViewCount == pt_section_map_count(1, TRUE)

ViewMapped == pt_section_map_mapped(1, TRUE)

ViewUnmapped == \E env \in ViewEnvs : pt_section_map_unmapped(1, env)

ViewRead ==
    /\ section.read = "pt_sec_windows_read"
    /\ \E size \in 0 .. (2 ^ Bits16 - 1), offset \in ReadOffsets,
          folded \in BOOLEAN : pt_sec_windows_read(1, size, offset, folded)

ViewUnmap == pt_section_unmap(1)

NextView ==
    \/ ViewCall
    \/ ViewLock
    \/ ViewCount
    \/ ViewMapped
    \/ ViewUnmapped
    \/ ViewRead
    \/ ViewUnmap

SpecView == InitView /\ [][NextView]_vars

\* SpecErrors: every call that pt_section_map makes may fail, the lock of
\* the section included; the system puts a view at the lowest free address.
ErrorEnvs == Envs({granularity})

\* SpecErrors: one thread maps and unmaps a section of two bytes, or a
\* section whose size does not fit a DWORD, at an offset that is or is not
\* a multiple of the allocation granularity.
InitErrors ==
    /\ Alloc(BufBase, BufBase, {})
    /\ \E offset \in {0, 1}, size \in {2, 2 ^ Bits32} :
          Section(offset, size, Bits64)
    /\ Encoder(<<>>, FALSE)
    /\ Query(pt_last_ip_init)
    /\ Image({}, {})

ErrorsCall == pt_section_map_call(1)

ErrorsLock == \E ok \in BOOLEAN : pt_section_map_lock(1, ok)

ErrorsCount == \E unlock_ok \in BOOLEAN : pt_section_map_count(1, unlock_ok)

ErrorsMapped == \E unlock_ok \in BOOLEAN : pt_section_map_mapped(1, unlock_ok)

ErrorsUnmapped ==
    \E env \in ErrorEnvs : pt_section_map_unmapped(1, SectionEnv(env))

ErrorsUnmap == pt_section_unmap(1)

NextErrors ==
    \/ ErrorsCall
    \/ ErrorsLock
    \/ ErrorsCount
    \/ ErrorsMapped
    \/ ErrorsUnmapped
    \/ ErrorsUnmap

SpecErrors == InitErrors /\ [][NextErrors]_vars

\* SpecLastIp: the payloads of the IP packets that update the last IP: two
\* 32-bit values, a 48-bit value with bit 47 set, and a value with no two
\* bytes alike, bits above bit 47 included.
LastIpPayloads ==
    {UInt64(<<120, 86, 52, 18>>), UInt64(<<239, 190, 173, 222>>),
     UInt64(<<0, 0, 0, 0, 0, 128>>), <<1, 2, 3, 4, 5, 6, 7, 8>>}

\* The three bits of the compression in the header of an IP packet: the four
\* compressions and one value that is none.
IpcArgs == 0 .. 4

LastIpUpdate ==
    /\ \E ipc \in IpcArgs, payload \in LastIpPayloads :
          pt_last_ip_update_ip(ipc, payload)
    /\ UNCHANGED <<decoder, sect, codec, img, cur>>

LastIpQuery ==
    /\ pt_last_ip_query
    /\ UNCHANGED <<decoder, sect, codec, img, cur>>

NextLastIp ==
    \/ LastIpUpdate
    \/ LastIpQuery

SpecLastIp == Init /\ [][NextLastIp]_vars

\* SpecImage: the number of sections up to which pt_image_add_file is called.
MaxSections == 2

\* SpecImage: the address spaces of the caller: two CR3 values and the
\* address space that pt_asid_init gives.
ImageAsids == {1, 2, pt_asid_no_cr3}

\* SpecImage: the virtual addresses that sections are loaded at.
ImageAddrs == 0 .. 2

\* SpecImage: the image that is copied from: a section in one address space
\* and a section in every address space, next to each other.
SrcImage ==
    {mk_section("a", 0, 2, 1, 1), mk_section("b", 0, 2, pt_asid_no_cr3, 0)}

\* An empty image, and an image to copy sections from.
InitImage ==
    /\ Alloc(BufBase, BufBase, {})
    /\ Section(0, 1, Bits64)
    /\ Encoder(<<>>, FALSE)
    /\ Query(pt_last_ip_init)
    /\ Image({}, SrcImage)

\* Two bytes are asked for, at an offset inside of file a; file b is shorter.
ImageAddFile ==
    /\ Cardinality(image) < MaxSections
    /\ \E filename \in FileNames, offset \in {0, 1}, cr3 \in ImageAsids,
          vaddr \in ImageAddrs :
          pt_image_add_file(filename, offset, 2, cr3, vaddr)
    /\ UNCHANGED <<decoder, sect, codec, qry, cur>>

\* An image is copied from another image, or from itself.
ImageCopy ==
    /\ \E src \in {"src", "image"} : pt_image_copy(src)
    /\ UNCHANGED <<decoder, sect, codec, qry, cur>>

ImageRemoveByFilename ==
    /\ \E filename \in FileNames, cr3 \in ImageAsids :
          pt_image_remove_by_filename(filename, cr3)
    /\ UNCHANGED <<decoder, sect, codec, qry, cur>>

ImageRemoveByAsid ==
    /\ \E cr3 \in ImageAsids : pt_image_remove_by_asid(cr3)
    /\ UNCHANGED <<decoder, sect, codec, qry, cur>>

NextImage ==
    \/ ImageAddFile
    \/ ImageCopy
    \/ ImageRemoveByFilename
    \/ ImageRemoveByAsid

SpecImage == InitImage /\ [][NextImage]_vars

\* SpecQuery: the number of packets that follow the PSB at the begin of the
\* trace.
MaxStream == 3

\* SpecQuery: the packets of the trace: the end of PSB+, the two MODE
\* packets, two conditional branches (taken, then not taken), and the IP
\* packets.
QueryPackets ==
    {Packet("ppt_psbend", 0, NoPayload),
     Packet("ppt_mode", 0,
            [leaf |-> pt_mol_exec, bits |-> [csl |-> 1, csd |-> 0]]),
     Packet("ppt_mode", 0,
            [leaf |-> pt_mol_tsx, bits |-> [intx |-> 1, abrt |-> 0]]),
     Packet("ppt_tnt_8", 0, [bit_size |-> 2, payload |-> UInt64(<<2>>)]),
     Packet("ppt_tip", 0,
            [ipc |-> pt_ipc_update_16, ip |-> UInt64(<<52, 18>>)]),
     Packet("ppt_tip_pgd", 0,
            [ipc |-> pt_ipc_suppressed, ip |-> UInt64(<<>>)]),
     Packet("ppt_fup", 0,
            [ipc |-> pt_ipc_update_16, ip |-> UInt64(<<52, 18>>)])}

\* The bytes of a sequence of packets.
RECURSIVE stream_bytes(_)
stream_bytes(packets) ==
    IF packets = <<>> THEN <<>>
    ELSE pt_encode(Head(packets)).bytes \o stream_bytes(Tail(packets))

\* A decoder for a trace that was recorded: a PSB and up to MaxStream
\* packets.
InitQuery ==
    \E n \in 0 .. MaxStream :
        \E body \in [1 .. n -> QueryPackets] :
            LET bytes == PsbBytes \o stream_bytes(body)
            IN  /\ Alloc(BufBase, BufBase + Len(bytes), {0})
                /\ Section(0, 1, Bits64)
                /\ Encoder(bytes, TRUE)
                /\ Query(pt_last_ip_init)
                /\ Image({}, {})

QuerySync ==
    /\ qry_sync
    /\ UNCHANGED <<n_events, sect, codec, img, cur>>

QueryCall ==
    /\ \E op \in {"cond_branch", "indirect_branch", "event"} : qry_call(op)
    /\ UNCHANGED <<n_events, sect, codec, img, cur>>

QueryFail ==
    /\ qry_fail
    /\ UNCHANGED <<n_events, sect, codec, img, cur>>

QueryCondPop ==
    /\ qry_cond_pop
    /\ UNCHANGED <<n_events, sect, codec, img, cur>>

QueryEventDequeue ==
    /\ qry_event_dequeue
    /\ UNCHANGED <<n_events, sect, codec, img, cur>>

QueryEventConsume ==
    /\ qry_event_consume
    /\ UNCHANGED <<n_events, sect, codec, img, cur>>

QueryDecode ==
    /\ qry_decode
    /\ UNCHANGED <<n_events, sect, codec, img, cur>>

QueryModeEnqueue ==
    /\ qry_mode_enqueue
    /\ UNCHANGED <<n_events, sect, codec, img, cur>>

QueryModeAdvance ==
    /\ qry_mode_advance
    /\ UNCHANGED <<n_events, sect, codec, img, cur>>

NextQuery ==
    \/ QuerySync
    \/ QueryCall
    \/ QueryFail
    \/ QueryCondPop
    \/ QueryEventDequeue
    \/ QueryEventConsume
    \/ QueryDecode
    \/ QueryModeEnqueue
    \/ QueryModeAdvance

SpecQuery == InitQuery /\ [][NextQuery]_vars

\* SpecCodec: the packets that the caller encodes.  The payloads are at the
\* limits of what a packet holds and beyond them.
TntPackets ==
    {Packet("ppt_tnt_8", 0, [bit_size |-> b, payload |-> UInt64(<<p>>)]) :
        b \in {0, 1, 6, 7}, p \in {0, 1, 2, 63}}
    \cup
    {Packet("ppt_tnt_64", 0, [bit_size |-> b, payload |-> UInt64(p)]) :
        b \in {0, 9, 47, 48},
        p \in {<<>>, <<255, 1>>, <<0, 2>>, <<255, 255, 255, 255, 255, 127>>}}

IpPackets ==
    {Packet("ppt_tip", 0, [ipc |-> c, ip |-> UInt64(ip)]) :
        c \in pt_ipc_suppressed .. (pt_ipc_sext_48 + 1),
        ip \in {<<>>, <<52, 18>>, <<1, 2, 3, 4>>, <<1, 2, 3, 4, 5, 255>>,
                <<0, 0, 0, 0, 0, 0, 1>>}}
    \cup
    {Packet(type, 0, [ipc |-> pt_ipc_update_16, ip |-> UInt64(<<52, 18>>)]) :
        type \in {"ppt_tip_pge", "ppt_tip_pgd", "ppt_fup"}}

ModePackets ==
    {Packet("ppt_mode", 0,
            [leaf |-> pt_mol_exec, bits |-> [csl |-> l, csd |-> d]]) :
        l \in {0, 1}, d \in {0, 1}}
    \cup
    {Packet("ppt_mode", 0,
            [leaf |-> pt_mol_tsx, bits |-> [intx |-> i, abrt |-> a]]) :
        i \in {0, 1}, a \in {0, 1}}
    \cup
    {Packet("ppt_mode", 0,
            [leaf |-> 2 * pt_mol_tsx, bits |-> [csl |-> 0, csd |-> 0]])}

OtherPackets ==
    {Packet(type, 0, NoPayload) :
        type \in {"ppt_pad", "ppt_psb", "ppt_psbend", "ppt_ovf",
                  "ppt_unknown", "ppt_invalid"}}
    \cup
    {Packet("ppt_pip", 0, [cr3 |-> UInt64(cr3)]) :
        cr3 \in {<<>>, <<32>>, <<1>>, <<224, 255, 255, 255, 255, 255, 15>>,
                 <<0, 0, 0, 0, 0, 0, 16>>}}
    \cup
    {Packet("ppt_tsc", 0, [tsc |-> UInt64(tsc)]) :
        tsc \in {<<>>, <<255, 255, 255, 255, 255, 255, 255>>,
                 <<0, 0, 0, 0, 0, 0, 0, 1>>}}
    \cup
    {Packet("ppt_cbr", 0, [ratio |-> r]) : r \in {0, 37, 255}}

Packets == TntPackets \cup IpPackets \cup ModePackets \cup OtherPackets

\* SpecCodec: the traces that the caller decodes: every choice of four bytes
\* from the opcodes, the extension codes and payload bytes, followed by
\* zeros and cut at some length, whole, damaged and cut PSB packets, and the
\* single bytes 0x5e and 0x5f.
FirstBytes ==
    {pt_opc_pad, pt_opc_ext, pt_opc_mode, pt_opc_tsc, pt_opc_tip,
     pt_opc_tip_pge + 2 ^ pt_opm_ipc_shr, pt_opc_tip_pgd + 2 * 32,
     pt_opc_fup + 3 * 32, pt_opc_tip + 4 * 32, pt_opc_tsc + 32,
     4, 6, 254, 89}

SecondBytes ==
    {0, 1, pt_ext_psb, pt_ext_tnt_64, pt_ext_pip, pt_ext_ovf,
     pt_ext_psbend, pt_ext_cbr, 4, pt_mol_tsx + pt_mob_tsx_abrt,
     pt_mol_exec + 4, 2 * pt_mol_tsx}

GivenTraces ==
    {SubSeq(<<b1, b2, b3, b4>> \o Zeros(4), 1, len) :
        b1 \in FirstBytes, b2 \in SecondBytes, b3 \in {0, 1, 128},
        b4 \in {0, 255}, len \in {1, 3, 7, 8}}
    \cup
    {PsbBytes \o <<pt_opc_ext, pt_ext_psbend>>,
     SubSeq(PsbBytes, 1, Len(PsbBytes) - 1),
     [PsbBytes EXCEPT ![Len(PsbBytes)] = 0],
     <<94>>, <<95>>}

\* SpecCodec: the caller encodes up to MaxPackets packets into an empty
\* trace buffer and decodes what was written, or decodes a given trace and
\* encodes each packet it got back over the bytes it got the packet from.
InitCodec ==
    /\ Alloc(BufBase, BufBase, {})
    /\ Section(0, 1, Bits64)
    /\ \/ \E len \in {1, 7, MaxTrace} : Encoder(Zeros(len), FALSE)
       \/ \E bytes \in GivenTraces : Encoder(bytes, TRUE)
    /\ Query(pt_last_ip_init)
    /\ Image({}, {})

CodecEncode ==
    /\ ~given
    /\ Len(encoded) < MaxPackets
    /\ \E packet \in Packets : pt_enc_next(packet)

CodecReencode ==
    /\ given
    /\ cret.op = "dec"
    /\ cret.val > 0
    /\ cret.pos = enc_pos
    /\ pt_enc_next(cret.packet)

CodecDecode ==
    /\ given \/ pkt_pos < enc_pos
    /\ pt_pkt_next

NextCodec ==
    \/ CodecEncode
    \/ CodecReencode
    \/ CodecDecode

SpecCodec == InitCodec /\ [][NextCodec]_vars

(***************************************************************************)
(* The event rings: properties.                                            *)
(***************************************************************************)

\* The call just made was given a binding that is in range.
OnBinding(op) == ret.op = op /\ ret.evb \in Bindings

\* The oldest event of a sequence of pending events that has the given type.
FirstOfType(pending, type) ==
    LET found == {k \in 1 .. Len(pending) : pending[k].type = type}
    IN  IF found = {} THEN NullEv
        ELSE pending[CHOOSE k \in found : \A l \in found : k <= l].ev

\* C1: within a binding, every successful pt_dequeue_event returns the oldest
\* event that was enqueued and has not been dequeued yet, with the type that
\* was stored when it was enqueued: the events leave in the order in which
\* they were enqueued, none skipped, duplicated or reordered.
C1_Fifo ==
    [][\A b \in Bindings :
          (ret'.op = "dequeue" /\ ret'.evb = b /\ ret'.ev /= NullEv)
          => /\ queue[b] /= <<>>
             /\ ret'.ev = Head(queue[b]).ev
             /\ ev_pend'[b][Head(queue[b]).ev.idx].type = Head(queue[b]).type
             /\ queue'[b] = Tail(queue[b])]_vars

\* C1: an event was dequeued from the last slot of the ring, and two events
\* of different types are pending behind it, in the first slots of the ring.
C1_Witness ==
    /\ OnBinding("dequeue")
    /\ ret.ev = EvPtr(ret.evb, evb_max_pend - 1)
    /\ ev_begin[ret.evb] = 0
    /\ ev_end[ret.evb] = 2
    /\ Len(queue[ret.evb]) = 2
    /\ queue[ret.evb][1].type /= queue[ret.evb][2].type

\* C2, as claimed: pt_enqueue_event succeeds whenever fewer than
\* evb_max_pend - 1 events are pending, that is, it reports full only with
\* evb_max_pend - 1 events pending.
C2_OneSlotUnused ==
    (OnBinding("enqueue") /\ ret.ev = NullEv)
    => Len(queue[ret.evb]) >= evb_max_pend - 1

\* C2, amended: a ring leaves two slots unused.  pt_enqueue_event succeeds if
\* and only if fewer than evb_max_pend - 2 events are pending: a ring never
\* holds more than evb_max_pend - 2 events, and it reports full exactly when
\* it holds that many.
C2_TwoSlotsUnused ==
    /\ \A b \in Bindings : Len(queue[b]) <= evb_max_pend - 2
    /\ (OnBinding("enqueue") /\ ret.ev = NullEv)
       => Len(queue[ret.evb]) = evb_max_pend - 2

\* C2: a ring that wraps around reports full with evb_max_pend - 2 events.
C2_Witness ==
    /\ OnBinding("enqueue")
    /\ ret.ev = NullEv
    /\ Len(queue[ret.evb]) = evb_max_pend - 2
    /\ ev_end[ret.evb] < ev_begin[ret.evb]

\* C3: as long as no pt_discard_events intervenes, pt_enqueue_event never
\* hands out the slot of the event that the most recent successful
\* pt_dequeue_event on the binding returned.
C3_LastDequeuedKept ==
    (OnBinding("enqueue") /\ ret.ev /= NullEv /\ ~discarded[ret.evb])
    => ret.ev /= last_deq[ret.evb]

\* C3: an enqueue filled the ring after a dequeue; the slot handed out is
\* the second before the slot of the last dequeued event.
C3_Witness ==
    /\ OnBinding("enqueue")
    /\ ret.ev /= NullEv
    /\ ~discarded[ret.evb]
    /\ last_deq[ret.evb] /= NullEv
    /\ Len(queue[ret.evb]) = evb_max_pend - 2
    /\ last_deq[ret.evb].idx = pt_queue_inc(pt_queue_inc(ret.ev.idx))

\* C4: a call on one binding leaves the indices and the slots of the rings
\* of all other bindings unchanged, and the event that pt_enqueue_event,
\* pt_dequeue_event or pt_find_event returns lies in the ring of the binding
\* the call was made with.
C4_Independent ==
    /\ [](ret.ev /= NullEv => ret.ev.evb = ret.evb)
    /\ [][\A b \in Bindings :
             b /= ret'.evb
             => /\ ev_begin'[b] = ev_begin[b]
                /\ ev_end'[b] = ev_end[b]
                /\ ev_pend'[b] = ev_pend[b]
                /\ queue'[b] = queue[b]]_vars

\* C4: events were discarded in one binding while another binding holds a
\* pending event of type ptev_disabled.
C4_Witness ==
    /\ OnBinding("discard")
    /\ \E b \in Bindings \ {ret.evb} :
          /\ queue[b] /= <<>>
          /\ ev_pend[b][ev_begin[b]].type = ptev_disabled
          /\ ev_end[b] /= 0

\* C5: a pt_enqueue_event that returns no event leaves the indices, every
\* slot of the rings and the pending events as they were.
C5_FullUnchanged ==
    [][(ret'.op = "enqueue" /\ ret'.ev = NullEv)
       => /\ ev_begin' = ev_begin
          /\ ev_end' = ev_end
          /\ ev_pend' = ev_pend
          /\ queue' = queue]_vars

\* C5: the ring is full, pt_enqueue_event returned no event, and the slot it
\* would have used still holds an event of type ptev_disabled.
C5_Witness ==
    /\ OnBinding("enqueue")
    /\ ret.ev = NullEv
    /\ Len(queue[ret.evb]) = evb_max_pend - 2
    /\ ev_pend[ret.evb][ev_end[ret.evb]].type = ptev_disabled

\* C6: pt_event_pending on a binding returns nonzero exactly when the next
\* pt_dequeue_event on it returns an event, which is exactly when an event
\* enqueued since the last discard has not been dequeued yet; and a
\* pt_dequeue_event that returns no event found no event pending and leaves
\* the indices unchanged.
C6_PendingIffDequeue ==
    /\ [](OnBinding("pending")
          => /\ ret.val /= 0 <=> dequeue_result(ret.evb) /= NullEv
             /\ ret.val /= 0 <=> queue[ret.evb] /= <<>>)
    /\ []((OnBinding("dequeue") /\ ret.ev = NullEv) => queue[ret.evb] = <<>>)
    /\ [][(ret'.op = "dequeue" /\ ret'.ev = NullEv)
          => ev_begin' = ev_begin /\ ev_end' = ev_end]_vars

\* C6: pt_event_pending returned nonzero on a ring that wraps around.
C6_Witness ==
    /\ OnBinding("pending")
    /\ ret.val = 1
    /\ ev_end[ret.evb] < ev_begin[ret.evb]

\* C7: pt_find_event returns the oldest pending event of the binding that has
\* the type asked for, and no event when no pending event has that type; the
\* event it returns holds that type.
C7_FindFirst ==
    OnBinding("find")
    => /\ ret.ev = FirstOfType(queue[ret.evb], ret.arg)
       /\ ret.ev /= NullEv => ev_pend[ret.evb][ret.ev.idx].type = ret.arg

\* C7: pt_find_event passed over the oldest pending event and returned a
\* later one, while the slot of the last dequeued event holds the type too.
C7_Witness ==
    /\ OnBinding("find")
    /\ ret.ev /= NullEv
    /\ ret.ev.idx /= ev_begin[ret.evb]
    /\ last_deq[ret.evb] /= NullEv
    /\ ~discarded[ret.evb]
    /\ ev_pend[ret.evb][last_deq[ret.evb].idx].type = ret.arg

\* C8: right after pt_discard_events the binding has no pending event:
\* pt_event_pending returns 0, pt_dequeue_event and pt_find_event return no
\* event.  From then on the ring takes as many events as the ring of a new
\* decoder: until the next successful dequeue, pt_enqueue_event reports full
\* exactly when evb_max_pend - 2 events were enqueued since the discard.
C8_DiscardEmpties ==
    /\ OnBinding("discard")
       => /\ event_pending(ret.evb) = 0
          /\ dequeue_result(ret.evb) = NullEv
          /\ \A type \in EventTypes : find_event(type, ret.evb) = NullEv
          /\ enqueue_result(ret.evb) /= NullEv
    /\ \A b \in Bindings :
          (discarded[b] \/ last_deq[b] = NullEv)
          => (enqueue_result(b) = NullEv
              <=> Len(queue[b]) = evb_max_pend - 2)

\* C8: after dequeues and a discard the ring was filled again, and reports
\* full.
C8_Witness ==
    /\ OnBinding("enqueue")
    /\ ret.ev = NullEv
    /\ discarded[ret.evb]
    /\ last_deq[ret.evb] /= NullEv
    /\ last_deq[ret.evb].idx < ev_end[ret.evb]
    /\ Len(queue[ret.evb]) = evb_max_pend - 2

(***************************************************************************)
(* The decoder position: properties.                                       *)
(***************************************************************************)

\* C9: in a synchronized decoder, begin <= last sync <= cursor <= end.
C9_SyncBeforeCursor ==
    sync /= NULL
    => /\ config.begin <= sync
       /\ sync <= pos
       /\ pos <= config.end
       /\ pt_get_decoder_sync <= pt_get_decoder_pos

\* C10: pt_advance either returns 0 and moves the cursor by size bytes to a
\* position in [begin, end], or returns -pte_eos and leaves the cursor where
\* it was, the position size bytes on lying before begin or past end; the
\* cursor never exceeds the end of the buffer.
C10_Advance ==
    /\ [](pos <= config.end)
    /\ [][ret'.op = "advance"
          => \/ /\ ret'.val = 0
                /\ pos' = pos + ret'.arg
                /\ config.begin <= pos' /\ pos' <= config.end
             \/ /\ ret'.val = -pte_eos
                /\ pos' = pos
                /\ \/ pos + ret'.arg < config.begin
                   \/ config.end < pos + ret'.arg]_vars

\* C10: a synchronized decoder at the end of the buffer was asked to move
\* on, and pt_advance returned -pte_eos.
C10_Witness ==
    /\ ret.op = "advance"
    /\ ret.val = -pte_eos
    /\ ret.arg > 0
    /\ sync /= NULL
    /\ pos = config.end

(***************************************************************************)
(* The status flags: properties.                                           *)
(***************************************************************************)

\* The next packet releases the events of a binding that holds a pending
\* event, or is an event packet itself.
ReleasesOnNext ==
    /\ ~next.null
    /\ \/ "pdff_event" \in next.flags
       \/ "pdff_psbend" \in next.flags /\ queue[evb_psbend] /= <<>>
       \/ "pdff_tip" \in next.flags /\ queue[evb_tip] /= <<>>
       \/ "pdff_fup" \in next.flags /\ queue[evb_fup] /= <<>>

\* C11: pt_status_flags reports pts_event_pending whenever the next packet
\* is a PSBEND, a TIP-family packet or a FUP (pdff_psbend, pdff_tip,
\* pdff_fup) and the binding that goes with it (evb_psbend, evb_tip,
\* evb_fup) holds a pending event, and whenever the next packet is an event
\* packet (pdff_event).
C11_StatusEventPending ==
    (ret.op = "status" /\ ReleasesOnNext)
    => (ret.val \div pts_event_pending) % 2 = 1

\* C11: the next packet is a FUP and nothing else, an event is pending in
\* evb_fup and in no other binding, and pt_status_flags reported it.
C11_Witness ==
    /\ ret.op = "status"
    /\ next = Dfun({"pdff_fup"})
    /\ queue[evb_fup] /= <<>>
    /\ queue[evb_tip] = <<>>
    /\ queue[evb_psbend] = <<>>
    /\ ret.val = pts_event_pending

(***************************************************************************)
(* The section: properties.                                                *)
(***************************************************************************)

\* The section has a mapping, and the system holds what belongs to it and
\* nothing else: one descriptor and, for a view of the file, one
\* file-mapping handle and one view.
OneMapping ==
    /\ section.mapping /= NoMapping
    /\ os.fds = {section.mapping.fd}
    /\ os.fhs = {section.mapping.fd}
    /\ IF section.mapping.kind = "windows"
       THEN /\ os.mhs = {section.mapping.mh}
            /\ Cardinality(os.views) = 1
            /\ \A v \in os.views : v.base = section.mapping.base
            /\ os.files = {}
       ELSE /\ os.mhs = {}
            /\ os.views = {}
            /\ os.files = {section.mapping.fd}

InMap(t) == pc[t] \in {"locked", "mapped", "unmapped"}

\* C13: when several threads call pt_section_map on the same section, a
\* thread reads and writes section->mcount and creates the mapping only
\* while it holds the lock of the section, so that at most one thread does
\* so at a time; one thread opens and maps the file, no increment of the
\* counter is lost, and when all calls have succeeded mcount is the number
\* of calls.
C13_MapUnderLock ==
    /\ \A t \in Threads : InMap(t) => lock = t
    /\ \A t, u \in Threads : (InMap(t) /\ InMap(u)) => t = u
    /\ Cardinality(os.fds) <= 1
    /\ Cardinality(os.mhs) <= 1
    /\ section.mcount = n_maps - n_unmaps
    /\ (/\ all_ok
        /\ n_unmaps = 0
        /\ \A t \in Threads : pc[t] = "idle")
       => section.mcount = n_calls

\* C13: one thread waits for the lock while another thread, which holds it,
\* has read the counter of the mapped section and has not yet written it.
C13_Witness ==
    /\ \E t, u \in Threads :
          /\ pc[t] = "mapped"
          /\ mc[t] = 2
          /\ pc[u] = "lock"
    /\ section.mcount = 1
    /\ n_maps = 1

\* C14: whenever pt_section_map has returned, on success or on any error
\* path, the calling thread does not hold the lock of the section: a
\* thread that is not inside pt_section_map does not hold the lock.
C14_LockReleased ==
    \A t \in Threads : pc[t] = "idle" => lock /= t

\* The file is not as pt_section_mk_status found it.
FileChanged ==
    \/ file.size /= section.status.size
    \/ file.mtime /= section.status.mtime

\* C15: when the size or the modification time of the file differs from
\* what pt_section_mk_status recorded, pt_section_map on an unmapped section
\* returns -pte_bad_image, installs no mapping and leaves mcount at 0, and
\* it has created no view of the file.
C15_ChangedFileBadImage ==
    [][\A t \in Threads :
          (pc[t] = "unmapped" /\ pc'[t] = "idle" /\ FileChanged)
          => /\ sret'.thread = t
             /\ sret'.val = -pte_bad_image
             /\ section' = section
             /\ section'.mapping = NoMapping
             /\ section'.mcount = 0
             /\ os'.views = os.views
             /\ sret'.views = 0]_vars

\* C15: the file was written after the section was unmapped, with its size
\* unchanged, and the next pt_section_map returned -pte_bad_image from the
\* comparison, with the descriptor closed again.
C15_Witness ==
    /\ sret.op = "map"
    /\ sret.val = -pte_bad_image
    /\ file.size = section.status.size
    /\ file.mtime /= section.status.mtime
    /\ n_unmaps = 1
    /\ section.mapping = NoMapping
    /\ section.mcount = 0
    /\ os.fds = {}
    /\ lock = sret.thread

\* C16: the descriptor that a successful pt_section_map opened stays open
\* for as long as section->mapping is installed, and it is closed once, by
\* the unmap function of the section when the mapping is removed: no
\* descriptor that is not open is closed, and the descriptor of an installed
\* mapping is closed only by the pt_section_unmap that removes the mapping.
C16_FdOpenWhileMapped ==
    /\ [](section.mapping /= NoMapping => section.mapping.fd \in os.fds)
    /\ [](~os.bad_close)
    /\ [][(/\ section.mapping /= NoMapping
           /\ section.mapping.fd \notin os'.fds)
          => /\ sret'.op = "unmap"
             /\ sret'.val = 0
             /\ section.mcount = 1
             /\ section'.mapping = NoMapping]_vars
    /\ [][(section.mapping /= NoMapping /\ section'.mapping = NoMapping)
          => /\ section.mapping.fd \in os.fds
             /\ section.mapping.fd \notin os'.fds]_vars

\* C16: a section that was mapped twice through a view has been unmapped
\* twice; the last pt_section_unmap removed the mapping and closed the
\* descriptor, which had been open until then.
C16_Witness ==
    /\ sret.op = "unmap"
    /\ sret.val = 0
    /\ n_maps = 2
    /\ n_unmaps = 2
    /\ section.mapping = NoMapping
    /\ os.fds = {}
    /\ os.mhs = {}
    /\ ~os.bad_close

\* The handles, descriptors, streams and views that are open.
Resources(o) == <<o.fhs, o.fds, o.files, o.mhs, o.views>>

Min(a, b) == IF a < b THEN a ELSE b

\* The bytes of the section from an offset on.
SectionBytes(offset, n) ==
    [i \in 1 .. n |-> FileByte(section.offset + offset + (i - 1))]

\* C18: pt_sec_windows_read(section, buffer, size, offset) on a mapped section
\* of length L returns -pte_nomap when offset >= L, and otherwise copies and
\* returns min(size, L - offset) bytes, the bytes of the section from offset
\* on.
C18_ReadWithinSection ==
    (/\ sret.op = "read"
     /\ section.mapping.kind = "windows")
    => IF sret.offset >= section.size
       THEN /\ sret.val = -pte_nomap
            /\ sret.bytes = <<>>
       ELSE /\ sret.val = Min(sret.size, section.size - sret.offset)
            /\ sret.bytes = SectionBytes(sret.offset, sret.val)

\* The step is a pt_enc_next call.
EncodeStep == Len(encoded') > Len(encoded)

\* The step is a pt_pkt_next call.
DecodeStep == encoded' = encoded /\ cret'.op = "dec"

\* The pt_enc_next call of an EncodeStep.
LastEncoded == encoded'[Len(encoded')]

\* C19: for every packet P of a known type that pt_enc_next accepts,
\* pt_pkt_next on the bytes written yields P with its size set to the number
\* of bytes written and consumes that many bytes; and for every byte
\* sequence that pt_pkt_next accepts, pt_enc_next on the packet it yields
\* writes the same bytes again.
C19_RoundTrip ==
    /\ [][(EncodeStep /\ LastEncoded.val > 0)
          => LET n == LastEncoded.val
                 d == pt_decode(SubSeq(trace', enc_pos + 1, Len(trace')))
             IN  /\ enc_pos' = enc_pos + n
                 /\ d.errcode = n
                 /\ d.packet = [LastEncoded.packet EXCEPT !.size = n]]_vars
    /\ [][DecodeStep
          => \A k \in 1 .. Len(encoded) :
                (encoded[k].val > 0 /\ encoded[k].pos = pkt_pos)
                => /\ cret'.val = encoded[k].val
                   /\ cret'.packet = [encoded[k].packet
                                         EXCEPT !.size = encoded[k].val]
                   /\ pkt_pos' = pkt_pos + encoded[k].val]_vars
    /\ [][(DecodeStep /\ cret'.val > 0)
          => LET e == pt_encode(cret'.packet)
             IN  /\ e.errcode = 0
                 /\ e.bytes = SubSeq(trace, pkt_pos + 1,
                                     pkt_pos + cret'.val)
                 /\ cret'.packet.size = cret'.val
                 /\ pkt_pos' = pkt_pos + cret'.val]_vars
    /\ [][(EncodeStep /\ given)
          => /\ LastEncoded.val = cret.val
             /\ trace' = trace]_vars

\* C19: a TNT-64 packet with 47 bits was encoded into an empty buffer, and
\* pt_pkt_next has returned it from the eight bytes written.
C19_Witness ==
    /\ ~given
    /\ cret.op = "dec"
    /\ cret.val = 2 + pt_pl_tnt_64_size
    /\ cret.packet.type = "ppt_tnt_64"
    /\ cret.packet.payload.bit_size = pt_pl_tnt_64_bits - 1
    /\ Len(encoded) = 1
    /\ pkt_pos = enc_pos

\* C20: when pt_enc_next fails, with -pte_bad_opc for a type that is not
\* known, -pte_bad_packet for a payload that is not valid, or -pte_eos when
\* the packet does not fit before the end of the buffer, the encoder has not
\* advanced and no byte of the trace buffer has changed.
C20_FailedEncodeWritesNothing ==
    [][(EncodeStep /\ LastEncoded.val <= 0)
       => LET e == pt_encode(LastEncoded.packet)
          IN  /\ enc_pos' = enc_pos
              /\ trace' = trace
              /\ LastEncoded.val
                     \in {-pte_bad_opc, -pte_bad_packet, -pte_eos}
              /\ LastEncoded.val = -pte_bad_opc
                     <=> LastEncoded.packet.type
                             \in {"ppt_unknown", "ppt_invalid"}
              /\ LastEncoded.val = -pte_bad_packet
                     <=> e.errcode = -pte_bad_packet
              /\ LastEncoded.val = -pte_eos
                     <=> (e.errcode = 0
                          /\ Len(e.bytes) > Len(trace) - enc_pos)]_vars

\* C20: a TSC packet, which has eight bytes, was given to an encoder with a
\* buffer of seven bytes; pt_enc_next has returned -pte_eos, and the buffer
\* is as it was.
C20_Witness ==
    /\ cret.op = "enc"
    /\ cret.val = -pte_eos
    /\ cret.packet.type = "ppt_tsc"
    /\ trace = Zeros(pt_pl_tsc_size)
    /\ enc_pos = 0

(***************************************************************************)
(* The event rings after a discard: properties.                            *)
(***************************************************************************)

\* C27: the last dequeued event is preserved across pt_discard_events too:
\* after a successful pt_dequeue_event and a pt_discard_events on a binding,
\* no pt_enqueue_event hands out the slot of that event before the next
\* successful dequeue.
C27_LastDequeuedKeptOverDiscard ==
    (OnBinding("enqueue") /\ ret.ev /= NullEv /\ discarded[ret.evb])
    => ret.ev /= last_deq[ret.evb]

(***************************************************************************)
(* Mapping a section when calls into the system fail: properties.          *)
(***************************************************************************)

\* C28: when pt_sec_windows_map has failed and _fdopen fails too,
\* pt_section_map returns the error that pt_sec_windows_map returned,
\* -pte_internal or -pte_bad_image.
C28_OriginalErrorReported ==
    (\E t \in Threads : pc[t] = "unmapped")
    => \A env \in ErrorEnvs :
          LET fd == NewId(os.fhs)
              o == open_osfhandle(CreateFile(os, fd), fd, fd)
              wmap == pt_sec_windows_map(o, fd, SectionEnv(env))
          IN  (/\ env.open1 \/ env.open2
               /\ env.osf
               /\ check_file_status(env) = 0
               /\ wmap.errcode /= 0
               /\ ~env.fdopen)
              => /\ wmap.errcode \in {-pte_internal, -pte_bad_image}
                 /\ map_file(SectionEnv(env)).errcode = wmap.errcode

\* C29: whenever pt_section_map returns a negative error code, also when it
\* is the final pt_section_unlock of an otherwise successful call that
\* fails, section->mcount and section->mapping are what they were before
\* the call.
C29_FailedMapCountsNothing ==
    [][\A t \in Threads :
          (pc[t] /= "idle" /\ pc'[t] = "idle" /\ sret'.val < 0)
          => /\ section'.mcount = section.mcount
             /\ section'.mapping = section.mapping]_vars

\* C30: every call of pt_section_map returns, whatever earlier calls on the
\* section did: a thread that is inside pt_section_map, waiting for the lock
\* of the section or holding it, eventually leaves the function.
C30_MapReturns ==
    \A t \in Threads : (pc[t] /= "idle") ~> (pc[t] = "idle")

(***************************************************************************)
(* Synchronization: properties.                                            *)
(***************************************************************************)

DecodedFrom == SubSeq(trace, cret.pos + 1, Len(trace))

C23_UpdateFollowsTable ==
    [][qret'.op = "update_ip" =>
          LET ipc == qret'.ipc
              payload == qret'.ip
              old == last_ip.ip
              new == last_ip'.ip
              bit47 == (payload[6] \div 128) % 2
          IN  /\ ipc = pt_ipc_suppressed =>
                    /\ new = old
                    /\ last_ip_query_result(last_ip') < 0
              /\ ipc = pt_ipc_update_16 =>
                    /\ \A i \in 1 .. 8 :
                          new[i] = IF i <= 2 THEN payload[i] ELSE old[i]
                    /\ last_ip_query_result(last_ip') = 0
              /\ ipc = pt_ipc_update_32 =>
                    /\ \A i \in 1 .. 8 :
                          new[i] = IF i <= 4 THEN payload[i] ELSE old[i]
                    /\ last_ip_query_result(last_ip') = 0
              /\ ipc = pt_ipc_sext_48 =>
                    /\ \A i \in 1 .. 8 :
                          new[i] = IF i <= 6 THEN payload[i] ELSE 255 * bit47
                    /\ last_ip_query_result(last_ip') = 0
              /\ /\ ipc = pt_ipc_update_32
                 /\ old = <<120, 86, 52, 18, 0, 0, 0, 0>>
                 /\ payload = <<239, 190, 173, 222, 0, 0, 0, 0>>
                 => new = <<239, 190, 173, 222, 0, 0, 0, 0>>
              /\ /\ ipc = pt_ipc_sext_48
                 /\ payload = <<0, 0, 0, 0, 0, 128, 0, 0>>
                 => new = <<0, 0, 0, 0, 0, 128, 255, 255>>]_vars

\* C23: the low 16 bits of the sign-extended IP 0xffff800000000000 have been
\* updated.
C23_Witness ==
    /\ qret.op = "update_ip"
    /\ qret.ipc = pt_ipc_update_16
    /\ qret.val = 0
    /\ last_ip.ip = <<1, 2, 0, 0, 0, 128, 255, 255>>

\* The addresses that a section of the image covers.
Covers(sec) == sec.vaddr .. (sec.vaddr + sec.size - 1)

\* Two sections are in matching address spaces and share an address.
Conflict(s, t) ==
    /\ s.cr3 = t.cr3 \/ pt_asid_no_cr3 \in {s.cr3, t.cr3}
    /\ Covers(s) \cap Covers(t) /= {}

\* C26: whatever pt_image_add_file, pt_image_copy,
\* pt_image_remove_by_filename and pt_image_remove_by_asid calls are made,
\* no two sections of the image in matching address spaces (the same CR3, or
\* pt_asid_no_cr3 on either side) share a virtual address; pt_image_add_file
\* returns -pte_bad_image for a section that would share one and leaves the
\* image as it is; pt_image_copy adds the sections of the other image that
\* share none and returns the number of those that do.
C26_NoOverlap ==
    /\ [](\A s, t \in image : s /= t => ~Conflict(s, t))
    /\ [][/\ iret'.op = "add_file" =>
                /\ /\ iret'.sec /= NoSection
                   /\ \E other \in image : Conflict(iret'.sec, other)
                   => iret'.val = -pte_bad_image
                /\ iret'.val < 0 => image' = image
                /\ iret'.val = 0 => image' = image \cup {iret'.sec}
          /\ iret'.op = "copy" =>
                LET src == IF iret'.src = "image" THEN image ELSE src_image
                    skipped == {s \in src :
                                   \E other \in image : Conflict(s, other)}
                IN  /\ iret'.val = Cardinality(skipped)
                    /\ image' = image \cup (src \ skipped)]_vars

\* C26: pt_image_copy has added one section of the other image and ignored
\* the other one, which shares an address with a section that was added in
\* all address spaces before.
C26_Witness ==
    /\ iret.op = "copy"
    /\ iret.src = "src"
    /\ iret.val = 1
    /\ \E s \in src_image \ image, t \in image \ src_image :
          /\ t.cr3 = pt_asid_no_cr3
          /\ s.cr3 /= pt_asid_no_cr3
          /\ Covers(s) \cap Covers(t) /= {}
    /\ \E s \in src_image : s \in image

\* The type of the packet that the bytes at the position of the decoder
\* hold.
TypeAtPos ==
    pt_decode(SubSeq(trace, pos - config.begin + 1, Len(trace))).packet.type

\* The types of the packets at which the events of a binding are released.
ReleasePoints(evb) ==
    IF evb = evb_psbend THEN {"ppt_psbend"}
    ELSE IF evb = evb_tip THEN {"ppt_tip", "ppt_tip_pge", "ppt_tip_pgd"}
    ELSE {"ppt_fup"}

Tnt8Branches(byte) ==
    [i \in 1 .. (HighBit(byte) - 1) |->
        (byte \div 2 ^ (HighBit(byte) - i)) % 2]

\* C22: pt_qry_indirect_branch, called when a conditional branch is next in
\* the trace (the TNT cache holds a bit, or the next packet is a TNT
\* packet), returns -pte_bad_query at once and changes nothing of the
\* decoder; a pt_qry_cond_branch that follows it succeeds and gives the
\* oldest conditional branch, which is the bit below the stop bit of the TNT
\* packet it came from.
C22_WrongQueryConsumesNothing ==
    /\ [][query.op = "indirect_branch" /\ query.cond_next =>
              /\ query'.op = "idle"
              /\ qret'.op = "indirect_branch"
              /\ qret'.val = -pte_bad_query
              /\ UNCHANGED <<tnt_cache, last_ip, in_psb, pos, sync, next,
                             ev_begin, ev_end, ev_pend>>]_vars
    /\ [][/\ query.op = "cond_branch"
          /\ query.cond_next
          /\ query'.op = "idle"
          /\ qret.op = "indirect_branch"
          /\ qret.val = -pte_bad_query
          => /\ qret'.op = "cond_branch"
             /\ qret'.val >= 0
             /\ tnt_cache /= <<>>
             /\ qret'.taken = Head(tnt_cache)
             /\ tnt_cache' = Tail(tnt_cache)]_vars
    /\ [][pos /= NULL /\ tnt_cache = <<>> /\ tnt_cache' /= <<>> =>
              /\ TypeAtPos = "ppt_tnt_8"
              /\ tnt_cache' = Tnt8Branches(trace[pos - config.begin + 1])]_vars

\* C22: pt_qry_indirect_branch has returned -pte_bad_query at a TNT packet
\* that follows the PSB; the pt_qry_cond_branch called next has decoded the
\* packet, and the branch it is about to give was taken.
C22_Witness ==
    /\ query.op = "cond_branch"
    /\ query.cond_next
    /\ qret.op = "indirect_branch"
    /\ qret.val = -pte_bad_query
    /\ tnt_cache = <<1, 0>>
    /\ pos = config.begin + ptps_psb + 1

(***************************************************************************)
(* The status flags: what pt_status_flags may return.                      *)
(***************************************************************************)

\* The binding whose events a flag of the next packet releases.
FlagBinding ==
    [f \in {"pdff_psbend", "pdff_tip", "pdff_fup"} |->
        IF f = "pdff_psbend" THEN evb_psbend
        ELSE IF f = "pdff_tip" THEN evb_tip
        ELSE evb_fup]

\* The flags of the next packet name bindings only, and no event is pending
\* in a binding they name.
NamesEmptyBindings ==
    /\ ~next.null
    /\ next.flags \subseteq DOMAIN FlagBinding
    /\ \A f \in next.flags : queue[FlagBinding[f]] = <<>>

\* C36: pt_status_flags does not modify the decoder and returns either 0 or
\* pts_event_pending, never a negative value and never another status bit;
\* it returns 0 when no next decode function is set, even if events are
\* pending, and when the flags of the next packet name only bindings whose
\* queues are empty.
C36_StatusFlagsReadOnly ==
    /\ [](ret.op = "status"
          => /\ ret.val \in {0, pts_event_pending}
             /\ next.null => ret.val = 0
             /\ NamesEmptyBindings => ret.val = 0)
    /\ [][ret'.op = "status"
          => UNCHANGED <<ev_begin, ev_end, ev_pend, pos, sync, config, next,
                         last_ip, tnt_cache, in_psb, dec_event,
                         dec_tsc>>]_vars

\* C36: the next packet is an event packet and a FUP, an event is pending in
\* evb_fup, and pt_status_flags, which sets pts_event_pending for each of
\* the two, has returned pts_event_pending.
C36_Witness ==
    /\ ret.op = "status"
    /\ next = Dfun({"pdff_event", "pdff_fup"})
    /\ queue[evb_fup] /= <<>>
    /\ ret.val = pts_event_pending

(***************************************************************************)
(* Specifications with pt_reset.                                           *)
(***************************************************************************)

\* SpecReset: the caller works on one binding, whose ring it fills, empties
\* and discards, and resets the decoder at any time; the rings of the other
\* bindings have held no event.
Unused(evb) ==
    /\ ev_begin[evb] = 0
    /\ ev_end[evb] = 0
    /\ ev_pend[evb] = [i \in Slots |-> ZeroEvent]
    /\ last_deq[evb] = NullEv

OnlyRing(evb) == \A other \in Bindings \ {evb} : Unused(other)

ResetEnqueue ==
    /\ \E evb \in Bindings, type \in EventTypes :
          OnlyRing(evb) /\ pt_enqueue_event(evb, type)
    /\ UNCHANGED <<n_events, next, sect, codec, qry, img, cur>>

ResetDequeue ==
    /\ \E evb \in Bindings : OnlyRing(evb) /\ pt_dequeue_event(evb)
    /\ UNCHANGED <<n_events, next, sect, codec, qry, img, cur>>

ResetDiscard ==
    /\ \E evb \in Bindings : OnlyRing(evb) /\ pt_discard_events(evb)
    /\ UNCHANGED <<n_events, next, sect, codec, qry, img, cur>>

ResetReset ==
    /\ pt_reset
    /\ UNCHANGED <<n_events, query, qret, sect, codec, img>>

NextReset ==
    \/ ResetEnqueue
    \/ ResetDequeue
    \/ ResetDiscard
    \/ ResetReset

SpecReset == Init /\ [][NextReset]_vars

\* SpecQueryReset: the packets of the trace: the end of PSB+, a MODE.exec, two
\* conditional branches, an indirect branch and a time stamp.
ResetPackets ==
    {Packet("ppt_psbend", 0, NoPayload),
     Packet("ppt_mode", 0,
            [leaf |-> pt_mol_exec, bits |-> [csl |-> 1, csd |-> 0]]),
     Packet("ppt_tnt_8", 0, [bit_size |-> 2, payload |-> UInt64(<<2>>)]),
     Packet("ppt_tip", 0,
            [ipc |-> pt_ipc_update_16, ip |-> UInt64(<<52, 18>>)]),
     Packet("ppt_tsc", 0, [tsc |-> UInt64(<<1, 2>>)])}

\* A decoder for a trace that was recorded: a PSB and up to MaxStream of
\* these packets.
InitQueryReset ==
    \E n \in 0 .. MaxStream :
        \E body \in [1 .. n -> ResetPackets] :
            LET bytes == PsbBytes \o stream_bytes(body)
            IN  /\ Alloc(BufBase, BufBase + Len(bytes), {0})
                /\ Section(0, 1, Bits64)
                /\ Encoder(bytes, TRUE)
                /\ Query(pt_last_ip_init)
                /\ Image({}, {})

\* decoder->tsc after a packet has been decoded: a TSC packet sets it.
decoded_tsc(packet) ==
    IF packet.type = "ppt_tsc" THEN packet.payload.tsc ELSE dec_tsc

\* A packet is decoded; the decoder keeps the time stamp of a TSC packet.
QueryResetDecode ==
    /\ qry_decode
    /\ dec_tsc' = decoded_tsc(cur_packet)
    /\ UNCHANGED <<dec_event, n_events, sect, codec, img>>

\* An event is dequeued for pt_qry_event; the decoder keeps it as its
\* current event.
QueryResetEvent ==
    /\ qry_event_dequeue
    /\ dec_event' = dequeue_result(released_by(cur_packet.type))
    /\ UNCHANGED <<dec_tsc, n_events, sect, codec, img>>

\* The caller resets the decoder between two queries.
QueryResetReset ==
    /\ query.op = "idle"
    /\ pt_reset
    /\ UNCHANGED <<n_events, query, qret, sect, codec, img>>

NextQueryReset ==
    \/ QuerySync
    \/ QueryCall
    \/ QueryFail
    \/ QueryCondPop
    \/ QueryResetEvent
    \/ QueryEventConsume
    \/ QueryResetDecode
    \/ QueryModeEnqueue
    \/ QueryModeAdvance
    \/ QueryResetReset

SpecQueryReset == InitQueryReset /\ [][NextQueryReset]_vars

(***************************************************************************)
(* The event rings under pt_reset: properties.                             *)
(***************************************************************************)

\* C34: in every state reachable from pt_alloc_decoder through
\* pt_enqueue_event, pt_dequeue_event, pt_discard_events and pt_reset, for
\* every binding ev_begin and ev_end are below evb_max_pend, so that the
\* index guards never fire, and ev_begin = ev_end holds only when no event is
\* pending: an enqueue never advances ev_end onto ev_begin.
C34_RingIndicesInRange ==
    /\ [](\A b \in Bindings :
             /\ ev_begin[b] \in Slots
             /\ ev_end[b] \in Slots
             /\ ev_begin[b] = ev_end[b] <=> queue[b] = <<>>)
    /\ [][(ret'.op = "enqueue" /\ ret'.ev /= NullEv)
          => ev_end'[ret'.evb] /= ev_begin'[ret'.evb]]_vars

\* C34: the events of the other bindings were discarded, the ring of a
\* binding was filled up to the last slot, and a pt_enqueue_event found it
\* full: ev_end is on the last slot, two slots before ev_begin.
C34_Witness ==
    /\ OnBinding("enqueue")
    /\ ret.ev = NullEv
    /\ \A b \in Bindings \ {ret.evb} : discarded[b]
    /\ ev_end[ret.evb] = evb_max_pend - 1
    /\ ev_begin[ret.evb] = 1
    /\ Len(queue[ret.evb]) = evb_max_pend - 2

\* The step is a pt_reset call.
ResetStep == ret'.op = "reset" /\ query.op = "idle"

\* C35: pt_reset empties the event queue of every binding and clears the
\* decoder flags, the current event, the TSC, the last IP and the TNT cache;
\* it leaves the configuration, the cursor, the last sync point and the next
\* decode function unchanged; and a pt_reset directly after a pt_reset
\* changes nothing.
C35_ResetClearsState ==
    /\ [][ResetStep
          => /\ \A b \in Bindings :
                   /\ ev_begin'[b] = ev_end'[b]
                   /\ queue'[b] = <<>>
                   /\ event_pending(b)' = 0
                   /\ dequeue_result(b)' = NullEv
             /\ in_psb' = FALSE
             /\ dec_event' = NullEv
             /\ dec_tsc' = Zeros(8)
             /\ last_ip' = pt_last_ip_init
             /\ tnt_cache' = <<>>
             /\ UNCHANGED <<config, pos, sync, next, psb_at, trace>>]_vars
    /\ [][(ResetStep /\ ret.op = "reset")
          => UNCHANGED <<ev_begin, ev_end, ev_pend, pos, sync, config, next,
                         in_psb, dec_event, dec_tsc, last_ip,
                         tnt_cache>>]_vars

\* C35: the decoder was reset behind the PSB, before a packet that is not the
\* last of the trace, after an event had been taken from the ring of
\* evb_psbend: the rings are empty and the cursor is where it was.
C35_Witness ==
    /\ ret.op = "reset"
    /\ sync = config.begin
    /\ pos > config.begin + ptps_psb
    /\ pos < config.end
    /\ ~next.null
    /\ last_deq[evb_psbend] /= NullEv
    /\ \A b \in Bindings : ev_begin[b] = 0 /\ ev_end[b] = 0
    /\ last_ip = pt_last_ip_init
    /\ tnt_cache = <<>>

(***************************************************************************)
(* Specification of pt_alloc_decoder.                                      *)
(***************************************************************************)

\* SpecAlloc: the configurations the caller passes: none, the one that
\* pt_config_init leaves, and every combination of a size field and of begin
\* and end pointers that are NULL or point into a buffer of MaxStep bytes.
AllocPointers == {NULL} \cup (BufBase .. (BufBase + MaxStep))

AllocConfigs ==
    {NoConfig, pt_config_init}
    \cup {Config(size, begin, end) :
            size \in {0, sizeof_config, sizeof_config + 1},
            begin \in AllocPointers, end \in AllocPointers}

\* No decoder has been allocated: the memory that calloc will hand out holds
\* what an earlier use left in it.
InitAlloc ==
    /\ ev_begin = [b \in Bindings |-> 1]
    /\ ev_end = [b \in Bindings |-> 2]
    /\ ev_pend = [b \in Bindings |-> [i \in Slots |-> ZeroEvent]]
    /\ pos = BufBase + 1
    /\ sync = BufBase + 1
    /\ config = [begin |-> BufBase, end |-> BufBase]
    /\ psb_at = {}
    /\ next = Dfun({"pdff_event"})
    /\ ret = Ret("none", 0, 0, NullEv, 0)
    /\ queue = [b \in Bindings |-> <<>>]
    /\ last_deq = [b \in Bindings |-> NullEv]
    /\ discarded = [b \in Bindings |-> FALSE]
    /\ n_events = 0
    /\ dec_event = EvPtr(0, 1)
    /\ dec_tsc = UInt64(<<1>>)
    /\ Section(0, 1, Bits64)
    /\ Encoder(<<>>, FALSE)
    /\ last_ip = [pt_last_ip_init EXCEPT !.have_ip = TRUE]
    /\ tnt_cache = <<1>>
    /\ in_psb = TRUE
    /\ query = NoQuery
    /\ qret = QRet("alloc", 0, 0, Zeros(8), 0, NoEvent)
    /\ Image({}, {})

\* A decoder has been returned.
Allocated == ret.op /= "none" /\ ~(ret.op = "alloc" /\ ret.val = 0)

\* calloc is called for a configuration that is valid, and it may fail.
AllocDecoder ==
    /\ ret.op = "none"
    /\ \E cfg \in AllocConfigs :
          \E calloc_ok \in IF config_valid(cfg) THEN BOOLEAN ELSE {TRUE} :
             pt_alloc_decoder(cfg, calloc_ok)
    /\ UNCHANGED <<n_events, query, qret, sect, codec, img>>

AllocGetPos ==
    /\ Allocated
    /\ pt_get_decoder_pos_call
    /\ UNCHANGED <<n_events, sect, codec, qry, img, cur>>

AllocGetSync ==
    /\ Allocated
    /\ pt_get_decoder_sync_call
    /\ UNCHANGED <<n_events, sect, codec, qry, img, cur>>

AllocPending ==
    /\ Allocated
    /\ \E evb \in Bindings : pt_event_pending(evb)
    /\ UNCHANGED <<n_events, next, sect, codec, qry, img, cur>>

AllocDequeue ==
    /\ Allocated
    /\ \E evb \in Bindings : pt_dequeue_event(evb)
    /\ UNCHANGED <<n_events, next, sect, codec, qry, img, cur>>

NextAlloc ==
    \/ AllocDecoder
    \/ AllocGetPos
    \/ AllocGetSync
    \/ AllocPending
    \/ AllocDequeue

SpecAlloc == InitAlloc /\ [][NextAlloc]_vars

(***************************************************************************)
(* pt_alloc_decoder: properties.                                           *)
(***************************************************************************)

\* The configuration is one that the claim lists as refused.
Refused(cfg) ==
    \/ cfg.null
    \/ cfg.size /= sizeof_config
    \/ cfg.begin = NULL
    \/ cfg.end = NULL
    \/ cfg.end < cfg.begin

\* The decoder is unsynchronized, holds a copy of the configuration, and
\* all its rings are empty.
FreshDecoder(cfg) ==
    /\ pos = NULL
    /\ sync = NULL
    /\ next = NoDfun
    /\ config = [begin |-> cfg.begin, end |-> cfg.end]
    /\ \A b \in Bindings :
          /\ ev_begin[b] = ev_end[b]
          /\ event_pending(b) = 0
          /\ dequeue_result(b) = NullEv
    /\ pt_get_decoder_pos = 0
    /\ pt_get_decoder_sync = 0

\* C37, as claimed: pt_alloc_decoder returns no decoder when the
\* configuration is NULL, its size field is not sizeof(struct pt_config),
\* begin or end is NULL, or end < begin; otherwise, also for begin = end, it
\* returns an unsynchronized decoder that holds a copy of the configuration,
\* with every event queue empty and pt_get_decoder_pos and
\* pt_get_decoder_sync reporting 0.
C37_AllocReturnsDecoder ==
    ret.op = "alloc"
    => IF Refused(ret.arg.config)
       THEN ret.val = 0
       ELSE ret.val = 1 /\ FreshDecoder(ret.arg.config)

\* C37, amended: as claimed, except that for a configuration that is not
\* refused pt_alloc_decoder returns no decoder either when the allocation
\* of the decoder (calloc) fails.
C37_AllocUnlessCallocFails ==
    /\ ret.op = "alloc"
       => IF Refused(ret.arg.config) \/ ~ret.arg.calloc
          THEN ret.val = 0
          ELSE ret.val = 1 /\ FreshDecoder(ret.arg.config)
    /\ ret.op \in {"get_pos", "get_sync", "pending"} => ret.val = 0
    /\ ret.op = "dequeue" => ret.ev = NullEv

\* C37: a decoder was allocated for an empty buffer, begin = end, and
\* pt_get_decoder_sync has reported 0.
C37_Witness ==
    /\ ret.op = "get_sync"
    /\ ret.val = 0
    /\ config.begin /= NULL
    /\ config.begin = config.end
    /\ sync = NULL
    /\ next = NoDfun

(***************************************************************************)
(* Specification of the execution mode helpers.                            *)
(***************************************************************************)

\* SpecExecMode: the caller turns execution modes, the four of the
\* enumeration and a value behind them, into the bits of a MODE.exec packet,
\* encodes the packet, decodes what was written, and turns the bits of the
\* packet it got, or the bits it has just made, into an execution mode.
InitExecMode ==
    /\ Alloc(BufBase, BufBase, {})
    /\ Section(0, 1, Bits64)
    /\ Encoder(Zeros(2 * MaxStream), FALSE)
    /\ Query(pt_last_ip_init)
    /\ Image({}, {})

\* The bits the caller has at hand: those pt_set_exec_mode has just
\* returned, and those of the packet pt_pkt_next has just returned.
BitsAtHand ==
    (IF qret.op = "set_exec_mode" THEN {qret.bits} ELSE {})
    \cup (IF cret.op = "dec" /\ cret.val > 0
          THEN {cret.packet.payload.bits} ELSE {})

ExecModeSet ==
    /\ \E mode \in ExecModes \cup {ptem_64bit + 1} :
          qret' = MRet("set_exec_mode", mode, pt_set_exec_mode(mode))
    /\ UNCHANGED <<decoder, sect, codec, img, cur, last_ip, tnt_cache,
                   in_psb, query>>

ExecModeEncode ==
    /\ qret.op = "set_exec_mode"
    /\ Len(encoded) < MaxStream
    /\ pt_enc_next(Packet("ppt_mode", 0,
                          [leaf |-> pt_mol_exec, bits |-> qret.bits]))

ExecModeDecode ==
    /\ pkt_pos < enc_pos
    /\ pt_pkt_next

ExecModeGet ==
    /\ \E bits \in BitsAtHand :
          qret' = MRet("get_exec_mode", pt_get_exec_mode(bits), bits)
    /\ UNCHANGED <<decoder, sect, codec, img, cur, last_ip, tnt_cache,
                   in_psb, query>>

NextExecMode ==
    \/ ExecModeSet
    \/ ExecModeEncode
    \/ ExecModeDecode
    \/ ExecModeGet

SpecExecMode == InitExecMode /\ [][NextExecMode]_vars

(***************************************************************************)
(* The execution mode helpers: properties.                                 *)
(***************************************************************************)

\* The execution mode that the csl and csd bits stand for.
ModeOfBits ==
    [csl \in {0, 1}, csd \in {0, 1} |->
        IF csl = 0 /\ csd = 0 THEN ptem_16bit
        ELSE IF csl = 0 /\ csd = 1 THEN ptem_32bit
        ELSE IF csl = 1 /\ csd = 0 THEN ptem_64bit
        ELSE ptem_unknown]

\* C38: pt_get_exec_mode and pt_set_exec_mode are inverse to each other:
\* pt_get_exec_mode of the bits that pt_set_exec_mode made for one of the
\* four execution modes is that mode, pt_set_exec_mode of the mode that
\* pt_get_exec_mode made of any combination of the csl and csd bits gives
\* these bits again, and the bits 00, 01, 10 and 11 (csl, csd) stand for
\* 16-bit, 32-bit, 64-bit and unknown.
C38_ExecModeInverse ==
    /\ [][(/\ qret.op = "set_exec_mode"
           /\ qret.mode \in ExecModes
           /\ qret'.op = "get_exec_mode"
           /\ qret'.bits = qret.bits)
          => qret'.mode = qret.mode]_vars
    /\ [][(/\ qret.op = "get_exec_mode"
           /\ qret'.op = "set_exec_mode"
           /\ qret'.mode = qret.mode)
          => qret'.bits = qret.bits]_vars
    /\ [](qret.op = "get_exec_mode"
          => qret.mode = ModeOfBits[qret.bits.csl, qret.bits.csd])
    /\ []((qret.op = "set_exec_mode" /\ qret.mode \in ExecModes)
          => qret.mode = ModeOfBits[qret.bits.csl, qret.bits.csd])

\* C38: a MODE.exec packet with both bits set, made for ptem_unknown, was
\* encoded and decoded, and pt_get_exec_mode of its bits is ptem_unknown,
\* for which pt_set_exec_mode had been called before.
C38_Witness ==
    /\ qret = MRet("get_exec_mode", ptem_unknown, ModeExec(1, 1))
    /\ cret.op = "dec"
    /\ cret.packet.payload.bits = ModeExec(1, 1)
    /\ encoded /= <<>>
    /\ encoded[1].packet.payload.bits = ModeExec(1, 1)

(***************************************************************************)
(* Specification of pt_sec_windows_unmap.                                  *)
(***************************************************************************)

\* SpecUnmap: every call into the system succeeds and the system puts a view
\* at the lowest address that is free.
UnmapEnvs ==
    {env \in Envs({granularity}) :
        /\ env.open1 /\ env.osf /\ env.fstat /\ env.cfm /\ env.view
        /\ env.malloc /\ env.fdopen /\ env.filemap = 0 /\ env.unlock}

\* SpecUnmap: one thread maps a section of two bytes, at an offset that is
\* or is not a multiple of the allocation granularity, unmaps it, and calls
\* pt_sec_windows_unmap on it, mapped or not.
InitUnmap ==
    /\ Alloc(BufBase, BufBase, {})
    /\ \E offset \in {0, 1, granularity + 1}, bits \in {Bits32, Bits64} :
          Section(offset, 2, bits)
    /\ Encoder(<<>>, FALSE)
    /\ Query(pt_last_ip_init)
    /\ Image({}, {})

UnmapCall == pt_section_map_call(1)

UnmapLock == pt_section_map_lock(1, TRUE)

UnmapCount == pt_section_map_count(1, TRUE)

UnmapMapped == pt_section_map_mapped(1, TRUE)

UnmapUnmapped ==
    \E env \in UnmapEnvs : pt_section_map_unmapped(1, SectionEnv(env))

UnmapSection == pt_section_unmap(1)

UnmapWindows == pt_sec_windows_unmap_call(1)

NextUnmap ==
    \/ UnmapCall
    \/ UnmapLock
    \/ UnmapCount
    \/ UnmapMapped
    \/ UnmapUnmapped
    \/ UnmapSection
    \/ UnmapWindows

SpecUnmap == InitUnmap /\ [][NextUnmap]_vars

(***************************************************************************)
(* Unmapping a view of the file: properties.                               *)
(***************************************************************************)

\* The step is a pt_section_unmap that calls pt_sec_windows_unmap.
WindowsUnmapStep ==
    /\ sret'.op = "unmap"
    /\ n_unmaps' = n_unmaps + 1
    /\ section.mcount = 1
    /\ section.mapping.kind = "windows"
    /\ section.unmap = "pt_sec_windows_unmap"

\* C31: pt_sec_windows_unmap releases exactly what pt_sec_windows_map
\* acquired, for every offset of the section, those that are no multiple of
\* the allocation granularity included: it passes the base address that
\* MapViewOfFile returned to UnmapViewOfFile and closes the file-mapping
\* handle and the descriptor once, so that after the section has been
\* mapped and unmapped no view, handle or descriptor remains.
C31_UnmapReleasesAll ==
    [][WindowsUnmapStep
       => /\ unmap_address(section.mapping) = section.mapping.base
          /\ os'.views = os.views
                 \ {v \in os.views : v.base = section.mapping.base}
          /\ os'.mhs = os.mhs \ {section.mapping.mh}
          /\ os'.fds = os.fds \ {section.mapping.fd}
          /\ ~os'.bad_close
          /\ (n_maps = 1 /\ all_ok)
             => Resources(os') = Resources(NoResources)]_vars

\* The step is a direct call of pt_sec_windows_unmap.
WindowsUnmapCall == sret'.op = "windows_unmap" /\ pc' = pc

\* pt_sec_windows_unmap finds nothing to unmap.
NothingMapped ==
    \/ section.mapping = NoMapping
    \/ section.unmap = NoFunction
    \/ section.read = NoFunction

\* C32: pt_sec_windows_unmap on a section that has no mapping returns
\* -pte_internal and changes nothing; on a mapped section it resets
\* section->mapping, section->unmap and section->read to NULL, so that a
\* second call fails with -pte_internal and no handle or descriptor is
\* released twice; and the section can be mapped again afterwards.
C32_SecondUnmapFails ==
    /\ [][WindowsUnmapCall
          => IF NothingMapped
             THEN /\ sret'.val = -pte_internal
                  /\ section' = section
                  /\ os' = os
             ELSE /\ sret'.val = 0
                  /\ section' = [section EXCEPT !.mapping = NoMapping,
                                                !.unmap = NoFunction,
                                                !.read = NoFunction]
                  /\ section.mapping.mh \in os.mhs
                  /\ section.mapping.fd \in os.fds
                  /\ os'.mhs = os.mhs \ {section.mapping.mh}
                  /\ os'.fds = os.fds \ {section.mapping.fd}]_vars
    /\ [][WindowsUnmapStep
          => /\ sret'.val = 0
             /\ section'.mapping = NoMapping
             /\ section'.unmap = NoFunction
             /\ section'.read = NoFunction]_vars
    /\ [](~os.bad_close)
    /\ [][(pc[1] = "unmapped" /\ pc'[1] = "idle")
          => /\ sret'.val = 0
             /\ section'.mapping /= NoMapping
             /\ section'.unmap /= NoFunction
             /\ section'.read /= NoFunction]_vars

\* C32: a section that was mapped once has been unmapped by a call of
\* pt_sec_windows_unmap, and a second call has returned -pte_internal: the
\* handle and the descriptor are closed, once.
C32_Witness ==
    /\ sret.op = "windows_unmap"
    /\ sret.val = -pte_internal
    /\ n_maps = 1
    /\ n_unmaps = 0
    /\ section.mcount = 1
    /\ section.mapping = NoMapping
    /\ os.fds = {}
    /\ os.mhs = {}
    /\ ~os.bad_close

(***************************************************************************)
(* Specification of the map counter at its maximum.                        *)
(***************************************************************************)

\* A section that has been mapped count times and not unmapped: the view
\* that the first pt_section_map made is installed, at the lowest address.
MappedSection(offset, size, bits, count) ==
    LET adjustment == offset % granularity
        view == [base |-> granularity, off |-> offset - adjustment,
                 len |-> size + adjustment]
    IN  /\ section = [offset |-> offset, size |-> size,
                      status |-> [size |-> offset + size, mtime |-> 0],
                      mcount |-> count,
                      mapping |-> [kind |-> "windows", fd |-> 1, mh |-> 1,
                                   base |-> view.base,
                                   begin |-> view.base + adjustment,
                                   end |-> view.base + view.len],
                      unmap |-> "pt_sec_windows_unmap",
                      read |-> "pt_sec_windows_read"]
        /\ file = [size |-> offset + size, mtime |-> 0]
        /\ lock = 0
        /\ pc = [t \in Threads |-> "idle"]
        /\ mc = [t \in Threads |-> 0]
        /\ sret = SRet(1, "map", 0, 0, 0, <<>>)
        /\ os = [NoResources EXCEPT !.fhs = {1}, !.fds = {1}, !.mhs = {1},
                                    !.views = {view}]
        /\ ptr_bits = bits
        /\ n_calls = 0
        /\ n_maps = count
        /\ n_unmaps = 0
        /\ all_ok = TRUE

\* SpecCount: the threads map and unmap a section that has been mapped
\* MaxCalls - 1 times less than its counter can count.
InitCount ==
    /\ Alloc(BufBase, BufBase, {})
    /\ \E offset \in {0, 1} :
          MappedSection(offset, 2, Bits64, 2 ^ 16 + 1 - MaxCalls)
    /\ Encoder(<<>>, FALSE)
    /\ Query(pt_last_ip_init)
    /\ Image({}, {})

CountCall ==
    \E t \in Threads : pt_section_map_call(t)

CountLock ==
    \E t \in Threads : pt_section_map_lock(t, TRUE)

CountCount ==
    \E t \in Threads : pt_section_map_count(t, TRUE)

CountMapped ==
    \E t \in Threads : pt_section_map_mapped(t, TRUE)

\* At most MaxCalls calls of pt_section_unmap are followed.
CountUnmap ==
    \E t \in Threads :
        /\ n_unmaps < MaxCalls
        /\ pt_section_unmap(t)

NextCount ==
    \/ CountCall
    \/ CountLock
    \/ CountCount
    \/ CountMapped
    \/ CountUnmap

SpecCount == InitCount /\ [][NextCount]_vars

(***************************************************************************)
(* The map counter at its maximum: properties.                             *)
(***************************************************************************)

\* C33: pt_section_map on a section whose 16-bit map counter is at its
\* maximum, 65535, returns -pte_internal, releases the lock and leaves the
\* counter and the mapping unchanged: the counter does not wrap to 0, and
\* the file is not mapped a second time.
C33_CounterDoesNotWrap ==
    /\ [][\A t \in Threads :
             (/\ pc[t] = "locked"
              /\ pc'[t] /= "locked"
              /\ section.mcount = 2 ^ 16 - 1)
             => /\ pc'[t] = "idle"
                /\ sret'.thread = t
                /\ sret'.op = "map"
                /\ sret'.val = -pte_internal
                /\ lock = t
                /\ lock' = 0
                /\ section' = section
                /\ os' = os]_vars
    /\ [][section.mcount = 2 ^ 16 - 1
          => section'.mcount \in {2 ^ 16 - 1, 2 ^ 16 - 2}]_vars
    /\ [](section.mcount > 0 => Cardinality(os.views) = 1)

\* C33: pt_section_map has returned -pte_internal on a section whose counter
\* is at 65535; the lock is free, and a second thread is about to ask for
\* it.
C33_Witness ==
    /\ sret.op = "map"
    /\ sret.val = -pte_internal
    /\ section.mcount = 2 ^ 16 - 1
    /\ section.mapping /= NoMapping
    /\ lock = 0
    /\ \E t \in Threads : pc[t] = "lock"

(***************************************************************************)
(* Specification of pt_sec_windows_map.                                    *)
(***************************************************************************)

\* SpecAdjust: section offsets in the first three allocation units.
AdjustOffsets == 0 .. (2 * granularity + 1)

\* SpecAdjust: section sizes: small ones, the largest that fits a DWORD and
\* the smallest that does not, and the two largest of a uint64_t.
AdjustSizes ==
    {1, 2, 2 ^ Bits32 - 1, 2 ^ Bits32, 2 ^ Bits64 - 2, 2 ^ Bits64 - 1}

\* SpecAdjust: CreateFileMapping, MapViewOfFile and malloc succeed or fail,
\* and the system puts the view into the first or the second allocation
\* unit above the lowest.
AdjustEnvs ==
    {env \in Envs({granularity, 2 * granularity}) :
        /\ env.open1 /\ env.osf /\ env.fstat /\ env.fdopen
        /\ env.filemap = 0 /\ env.unlock}

\* SpecAdjust: a section of any of the offsets and sizes whose file has been
\* opened, as pt_section_map has opened it when it calls pt_sec_windows_map;
\* the section is mapped and read.
InitAdjust ==
    /\ Alloc(BufBase, BufBase, {})
    /\ \E offset \in AdjustOffsets, size \in AdjustSizes,
          bits \in {Bits32, Bits64} :
          /\ section = [offset |-> offset, size |-> size,
                        status |-> [size |-> offset + size, mtime |-> 0],
                        mcount |-> 0, mapping |-> NoMapping,
                        unmap |-> NoFunction, read |-> NoFunction]
          /\ file = [size |-> offset + size, mtime |-> 0]
          /\ ptr_bits = bits
    /\ lock = 0
    /\ pc = [t \in Threads |-> "idle"]
    /\ mc = [t \in Threads |-> 0]
    /\ sret = SRet(0, "mk", 0, 0, 0, <<>>)
    /\ os = open_osfhandle(CreateFile(NoResources, 1), 1, 1)
    /\ n_calls = 0
    /\ n_maps = 0
    /\ n_unmaps = 0
    /\ all_ok = TRUE
    /\ Encoder(<<>>, FALSE)
    /\ Query(pt_last_ip_init)
    /\ Image({}, {})

\* The calls of pt_sec_windows_map are followed until one has created a
\* view.
AdjustMap ==
    \E env \in AdjustEnvs :
        /\ os.n_views = 0
        /\ pt_sec_windows_map_call(1, 1, env)

AdjustRead ==
    \E size \in 1 .. MaxRead, offset \in 0 .. 1, folded \in BOOLEAN :
        pt_sec_windows_read(1, size, offset, folded)

NextAdjust ==
    \/ AdjustMap
    \/ AdjustRead

SpecAdjust == InitAdjust /\ [][NextAdjust]_vars

(***************************************************************************)
(* pt_sec_windows_map: properties.                                         *)
(***************************************************************************)

\* The section's offset within its allocation unit.
Adjustment == section.offset % granularity

\* A step of pt_sec_windows_map.
WindowsMapStep == sret'.op = "windows_map" /\ section.mapping = NoMapping

\* C39: for every section offset o and size s, pt_sec_windows_map maps the
\* view that starts at file offset o - (o mod granularity), a multiple of the
\* allocation granularity, and is s + (o mod granularity) bytes long, and
\* sets mapping->begin to base + (o mod granularity) and mapping->end to
\* base + s + (o mod granularity): the byte at mapping->begin is byte o of
\* the file, and mapping->end - mapping->begin is s.  When the adjusted
\* length overflows 64 bits or does not fit in 32 bits, it returns
\* -pte_internal and creates no mapping.
C39_ViewAdjustedToGranularity ==
    /\ [][WindowsMapStep /\ sret'.val = 0
          => \E v \in os'.views :
                /\ os' = MapViewOfFile(CreateFileMapping(os,
                                                         section'.mapping.mh),
                                       v.base, v.off, v.len)
                /\ v.off = section.offset - Adjustment
                /\ v.off % granularity = 0
                /\ v.len = section.size + Adjustment
                /\ section'.mapping.base = v.base
                /\ section'.mapping.begin = v.base + Adjustment
                /\ section'.mapping.end
                   = v.base + section.size + Adjustment
                /\ section'.mapping.end - section'.mapping.begin
                   = section.size
                /\ Memory(section.mapping.begin)'
                   = FileByte(section.offset)]_vars
    /\ [][(/\ WindowsMapStep
           /\ \/ section.size + Adjustment >= 2 ^ Bits64
              \/ section.size + Adjustment >= 2 ^ Bits32)
          => /\ sret'.val = -pte_internal
             /\ section' = section
             /\ os' = os]_vars
    /\ [](sret.op = "read" /\ sret.offset = 0 /\ sret.val > 0
          => sret.bytes[1] = FileByte(section.offset))

\* C39: pt_sec_windows_map has mapped a section of more than one byte that
\* begins in the middle of an allocation unit that is not the first, in a
\* 32-bit build, and the section's first byte has been read.
C39_Witness ==
    /\ section.mapping.kind = "windows"
    /\ section.offset > granularity
    /\ Adjustment > 0
    /\ section.size > 1
    /\ ptr_bits = Bits32
    /\ section.mapping.begin = section.mapping.base + Adjustment
    /\ sret.op = "read"
    /\ sret.bytes = <<FileByte(section.offset)>>

\* pt_sec_windows_map has returned -pte_internal for a length that fits 64
\* bits but not 32.
MapRefusedTooLong ==
    /\ sret.op = "windows_map"
    /\ sret.val = -pte_internal
    /\ section.size + Adjustment < 2 ^ Bits64
    /\ section.mapping = NoMapping

\* pt_sec_windows_map has returned -pte_internal for a length that
\* overflows 64 bits.
MapRefusedOverflow ==
    /\ sret.op = "windows_map"
    /\ sret.val = -pte_internal
    /\ section.size + Adjustment >= 2 ^ Bits64
    /\ section.mapping = NoMapping

=============================================================================
